---- MODULE Spec2Model ----
(***************************************************************************)
(* State machine of the gdutils step library (src/context.go): the cache,  *)
(* the prepared *http.Request objects held in it by pointer, the two send  *)
(* paths, and the assertions on the last response.  Every step runs        *)
(* synchronously on the caller's goroutine, so one action is one whole     *)
(* step.  `last` records the step that ran last, with its arguments, the   *)
(* error it returned and the request it handed to the HTTP client.  Two    *)
(* history variables: `sent` holds the requests a send of which succeeded, *)
(* `served` the response of the latest successful send since the state was *)
(* reset.  `callers` holds the goroutines that save into the cache in      *)
(* parallel with one another.                                              *)
(***************************************************************************)
EXTENDS Integers, Sequences, FiniteSets, TLC

VARIABLES cache, reqs, debug, now, sent, served, last, callers

vars == <<cache, reqs, debug, now, sent, served, last, callers>>

(***************************************************************************)
(* Bounds of the model.                                                    *)
(***************************************************************************)
\* number of *http.Request objects the steps may allocate
MaxReqs == 2
\* last reading of the wall clock at which a send may still start
MaxClock == 2

(***************************************************************************)
(* Cache keys.  The three httpcache keys are ordinary strings, so a saving *)
(* step may be given one of them as its cacheKey.                          *)
(***************************************************************************)
UserKeys == {"k1", "k2"}

LastHTTPRequestTimestamp == "LAST_HTTP_REQUEST_TIMESTAMP"

LastHTTPResponseTimestamp == "LAST_HTTP_RESPONSE_TIMESTAMP"

LastHTTPResponseCacheKey == "LAST_HTTP_RESPONSE"

HttpKeys == {LastHTTPRequestTimestamp, LastHTTPResponseTimestamp, LastHTTPResponseCacheKey}

Keys == UserKeys \cup HttpKeys

(***************************************************************************)
(* Values of the cache (interface{}): a tagged record per dynamic type.    *)
(***************************************************************************)
Absent == [t |-> "absent"]

StringVal(s) == [t |-> "string", s |-> s]

RequestVal(id) == [id |-> id, t |-> "request"]

TimeVal(at) == [t |-> "time", at |-> at]

ResponseVal(r) == [t |-> "response", r |-> r]

NodeVal(n) == [t |-> "node", n |-> n]

(***************************************************************************)
(* Errors.  err is the sentinel the returned error wraps ("nil": success), *)
(* why tells the failures of one sentinel apart, text holds the values     *)
(* the message prints.                                                     *)
(***************************************************************************)
Ok == [err |-> "nil", why |-> "", text |-> <<>>]

Err(sentinel, why, text) == [err |-> sentinel, why |-> why, text |-> text]

Panic == [err |-> "panic", why |-> "nil pointer dereference", text |-> <<>>]

Failed(res) == res.err # "nil"

(***************************************************************************)
(* cache.Cache: Save, GetSaved, All, Reset.                                *)
(***************************************************************************)
EmptyCache == [k \in Keys |-> Absent]

\* the map is built anew by every Save: the entries of the other keys are lost
Save_rebuildsMap(c, key, value) == [EmptyCache EXCEPT ![key] = value]

Save(c, key, value) == [c EXCEPT ![key] = value]

GetSaved(c, key) ==
  IF c[key] = Absent
    THEN [err |-> Err("ErrCache", "not found", <<key>>), value |-> Absent]
    ELSE [err |-> Ok, value |-> c[key]]

All(c) == c

Reset(c) == EmptyCache

(***************************************************************************)
(* template.Engine.Replace: a template is a literal text followed by at    *)
(* most one placeholder {{.ref}}; the placeholder is replaced by the       *)
(* printed form of the cached value and fails when the key is not cached.  *)
(***************************************************************************)
NoRef == "<none>"

Tmpl(text, ref) == [text |-> text, ref |-> ref]

Stringify(v) ==
  CASE v.t = "string" -> v.s
    [] v.t = "request" -> "&{request}"
    [] v.t = "time" -> "T" \o ToString(v.at)
    [] v.t = "response" -> "&{response}"
    [] OTHER -> "<no value>"

Replace(template, snapshot) ==
  IF template.ref = NoRef
    THEN [err |-> Ok, out |-> template.text]
    ELSE IF snapshot[template.ref] = Absent
      THEN [err |-> Err("ErrTemplate", "missing key", <<template.ref>>), out |-> ""]
      ELSE [err |-> Ok, out |-> template.text \o Stringify(snapshot[template.ref])]

(***************************************************************************)
(* *http.Request objects.  reqs is the heap: reqs[id] is the object a      *)
(* RequestVal(id) in the cache points to.  Header is http.Header: a list   *)
(* of values per canonical header name.  Body is <<>> for a nil body and   *)
(* <<bytes>> otherwise.                                                    *)
(***************************************************************************)
NoReq == [t |-> "noreq"]

ReqIds == 1..MaxReqs

HeaderNames == {"A", "B", "User-Agent"}

EmptyHeader == [h \in HeaderNames |-> <<>>]

HeaderSet(header, name, value) == [header EXCEPT ![name] = <<value>>]

HeaderAdd(header, name, value) == [header EXCEPT ![name] = Append(@, value)]

\* http.NewRequest fails on a URL it cannot parse
ValidURL(url) == url # "::"

NewRequest(method, url, body) ==
  [t |-> "req", Method |-> method, URL |-> url, Header |-> EmptyHeader, Body |-> body]

\* an object no cache entry points to any more: no step can reach it again
Garbage == [t |-> "garbage"]

Allocated == {id \in ReqIds : reqs[id] # NoReq}

Referenced(c) == {id \in ReqIds : \E k \in Keys : c[k] = RequestVal(id)}

Collect(heap, c) ==
  [id \in ReqIds |-> IF heap[id] # NoReq /\ id \notin Referenced(c) THEN Garbage ELSE heap[id]]

\* the address `new` returns: an object no live pointer refers to
FreshId == CHOOSE id \in ReqIds \ Allocated : \A j \in ReqIds \ Allocated : id <= j

(***************************************************************************)
(* The server under test and the HTTP client.  A response carries a status *)
(* code, headers and a body; the body is named by the document it holds.   *)
(***************************************************************************)
NoResponse == [t |-> "nil response"]

RespHeaderNames == {"X-Test"}

Response(code, xtest, body) ==
  [Header |-> [h \in RespHeaderNames |-> xtest], Body |-> body, StatusCode |-> code]

StatusCodes == {200, 404}

Responses ==
  { Response(200, <<"abc">>, "doc1"),
    Response(200, <<"">>, "doc2"),
    Response(404, <<>>, "plain") }

\* what the wrapped http.Transport answers: a response, or an error
Outcomes == Responses \cup {[t |-> "transport error"]}

TransportFailed(outcome) == outcome \notin Responses

\* the request timestamp is not saved before Do
BeforeDo_skipped(c, t0) == c

\* s.Cache.Save(httpcache.LastHTTPRequestTimestamp, time.Now()), before Do
BeforeDo(c, t0) == Save(c, LastHTTPRequestTimestamp, TimeVal(t0))

\* the response timestamp is saved whether or not Do failed
AfterDo_timestampAlways(c, outcome, t1) ==
  IF TransportFailed(outcome)
    THEN Save(c, LastHTTPResponseTimestamp, TimeVal(t1))
    ELSE Save(Save(c, LastHTTPResponseTimestamp, TimeVal(t1)),
              LastHTTPResponseCacheKey, ResponseVal(outcome))

\* the response is saved by the first successful send only
AfterDo_keepsFirstResponse(c, outcome, t1) ==
  IF TransportFailed(outcome)
    THEN c
    ELSE IF c[LastHTTPResponseCacheKey] = Absent
      THEN Save(Save(c, LastHTTPResponseTimestamp, TimeVal(t1)),
                LastHTTPResponseCacheKey, ResponseVal(outcome))
      ELSE Save(c, LastHTTPResponseTimestamp, TimeVal(t1))

\* what follows Do: on an error the step returns, otherwise it saves the
\* response timestamp and the response
AfterDo(c, outcome, t1) ==
  IF TransportFailed(outcome)
    THEN c
    ELSE Save(Save(c, LastHTTPResponseTimestamp, TimeVal(t1)),
              LastHTTPResponseCacheKey, ResponseVal(outcome))

\* the error of the step after Do
DoError(outcome) ==
  IF TransportFailed(outcome) THEN Err("ErrHTTPReqRes", "transport", <<>>) ELSE Ok

\* CustomTransport.RoundTrip: adds the User-Agent header to the request it
\* is given (the caller's object) before delegating
RoundTrip(req) == [req EXCEPT !.Header = HeaderAdd(@, "User-Agent", "gdutils")]

(***************************************************************************)
(* The record of one step.                                                 *)
(***************************************************************************)
\* disp: the request handed to the HTTP client, as it was handed over, with
\* the id of its object (0: an object that is in no cache entry)
\* ts is the request timestamp the cache holds when the client is called.
\* again tells whether a send of that object had succeeded before.
NoDispatch == [id |-> -1, req |-> NoReq, ts |-> Absent, again |-> FALSE]

Dispatch(id, req, c) ==
  [id |-> id, req |-> req, ts |-> c[LastHTTPRequestTimestamp], again |-> id \in sent]

Step(op, args, res, disp) == [res |-> res, op |-> op, args |-> args, disp |-> disp]

\* an assertion hands nothing to the HTTP client
Asserted(op, args, res) == Step(op, args, res, NoDispatch)

(***************************************************************************)
(* getPreparedRequest                                                      *)
(***************************************************************************)
\* a wrong-typed value is reported like a missing key
getPreparedRequest_oneError(cacheKey) ==
  LET got == GetSaved(cache, cacheKey) IN
  IF Failed(got.err) \/ got.value.t # "request"
    THEN [err |-> Err("ErrGdutils", "not found", <<cacheKey>>), id |-> 0]
    ELSE [err |-> Ok, id |-> got.value.id]

\* a request that was sent is no longer handed out
getPreparedRequest_sentIsTerminal(cacheKey) ==
  LET got == GetSaved(cache, cacheKey) IN
  IF Failed(got.err)
    THEN [err |-> Err("ErrGdutils", got.err.why, <<cacheKey>>), id |-> 0]
    ELSE IF got.value.t # "request" \/ got.value.id \in sent
      THEN [err |-> Err("ErrPreservedData", "not *http.Request", <<cacheKey>>), id |-> 0]
      ELSE [err |-> Ok, id |-> got.value.id]

getPreparedRequest(cacheKey) ==
  LET got == GetSaved(cache, cacheKey) IN
  IF Failed(got.err)
    THEN [err |-> Err("ErrGdutils", got.err.why, <<cacheKey>>), id |-> 0]
    ELSE IF got.value.t # "request"
      THEN [err |-> Err("ErrPreservedData", "not *http.Request", <<cacheKey>>), id |-> 0]
      ELSE [err |-> Ok, id |-> got.value.id]

(***************************************************************************)
(* Inputs of the request steps.                                            *)
(***************************************************************************)
Methods == {"POST"}

URLTemplates == {Tmpl("http://h/", NoRef), Tmpl("http://h/", "k2"), Tmpl("::", NoRef)}

BodyTemplates == {Tmpl("b1", NoRef), Tmpl("b2", "k2")}

\* A headers document: valid tells whether the Deserializer accepts it, ref
\* is the cache key its placeholder names, map the headers it lists; the
\* value "$" stands for the placeholder.
HeadersDoc(valid, ref, map) == [ref |-> ref, valid |-> valid, map |-> map]

HeadersTemplates ==
  { HeadersDoc(TRUE, NoRef, [h \in {"A"} |-> "1"]),
    HeadersDoc(TRUE, NoRef, [h \in {"A", "B"} |-> "2"]),
    HeadersDoc(TRUE, "k2", [h \in {"B"} |-> "$"]),
    HeadersDoc(FALSE, NoRef, [h \in {"A"} |-> "1"]) }

\* TemplateEngine.Replace on a headers document
ReplaceHeaders(doc, snapshot) ==
  LET r == Replace(Tmpl("", doc.ref), snapshot) IN
  [err |-> r.err,
   out |-> [doc EXCEPT !.map = [h \in DOMAIN doc.map |-> IF doc.map[h] = "$" THEN r.out ELSE doc.map[h]]]]

\* the headers of the request are replaced by the given ones
SetHeaders_replaceAll(header, headersMap) ==
  [h \in HeaderNames |-> IF h \in DOMAIN headersMap THEN <<headersMap[h]>> ELSE <<>>]

\* for hName, hValue := range headersMap { req.Header.Set(hName, hValue) }
SetHeaders(header, headersMap) ==
  [h \in HeaderNames |-> IF h \in DOMAIN headersMap THEN <<headersMap[h]>> ELSE header[h]]

\* what the set-headers step does to the request it was handed
WithHeaders(req, headersMap) == [req EXCEPT !.Header = SetHeaders(@, headersMap)]

\* the body is set on a request built anew: the headers are lost
WithBody_newRequest(req, body) == NewRequest(req.Method, req.URL, <<body>>)

\* req.Body = ioutil.NopCloser(bytes.NewReader([]byte(body)))
WithBody(req, body) == [req EXCEPT !.Body = <<body>>]

(***************************************************************************)
(* Initial state: NewDefaultAPIContext(false, ...), nothing cached.        *)
(***************************************************************************)
(***************************************************************************)
(* Parallel callers of the cache NewDefaultAPIContext builds with          *)
(* cache.NewConcurrentCache(): each caller saves one value under a key of  *)
(* its own.  A call and the Save it makes are two steps, so the Saves of   *)
(* the callers interleave in every order.                                  *)
(***************************************************************************)
Callers == {"c1", "c2", "c3"}

CallerKey(c) ==
  CASE c = "c1" -> "k1"
    [] c = "c2" -> "k2"
    [] OTHER -> LastHTTPRequestTimestamp

Idle == [value |-> "", pc |-> "idle"]

Saving(value) == [value |-> value, pc |-> "saving"]

Saved(value) == [value |-> value, pc |-> "saved"]

Init ==
  /\ cache = EmptyCache
  /\ reqs = [id \in ReqIds |-> NoReq]
  /\ debug = FALSE
  /\ now = 0
  /\ sent = {}
  /\ served = NoResponse
  /\ last = Step("none", <<>>, Ok, NoDispatch)
  /\ callers = [c \in Callers |-> Idle]

(***************************************************************************)
(* ResetState, IStartDebugMode, IStopDebugMode                             *)
(***************************************************************************)
\* the debugger is reset, the cache is not
ResetState_keepsCache(isDebug) ==
  /\ debug' = isDebug
  /\ last' = Step("ResetState", <<isDebug>>, Ok, NoDispatch)
  /\ UNCHANGED <<cache, reqs, now, sent, served, callers>>

ResetState(isDebug) ==
  /\ cache' = Reset(cache)
  /\ debug' = isDebug
  /\ reqs' = Collect(reqs, cache')
  /\ served' = NoResponse
  /\ last' = Step("ResetState", <<isDebug>>, Ok, NoDispatch)
  /\ UNCHANGED <<now, sent, callers>>

IStartDebugMode ==
  /\ debug' = TRUE
  /\ last' = Step("IStartDebugMode", <<>>, Ok, NoDispatch)
  /\ UNCHANGED <<cache, reqs, now, sent, served, callers>>

IStopDebugMode ==
  /\ debug' = FALSE
  /\ last' = Step("IStopDebugMode", <<>>, Ok, NoDispatch)
  /\ UNCHANGED <<cache, reqs, now, sent, served, callers>>

(***************************************************************************)
(* ISaveAs                                                                 *)
(***************************************************************************)
\* the value is saved only under a key that holds nothing yet
ISaveAs_keepsFirst(value, cacheKey) ==
  /\ UNCHANGED <<debug, now, sent, served, callers>>
  /\ IF value = ""
       THEN /\ last' = Step("ISaveAs", <<value, cacheKey>>, Err("ErrGdutils", "pass any value", <<>>), NoDispatch)
            /\ UNCHANGED <<cache, reqs>>
       ELSE IF cacheKey = ""
         THEN /\ last' = Step("ISaveAs", <<value, cacheKey>>, Err("ErrGdutils", "empty cacheKey", <<>>), NoDispatch)
              /\ UNCHANGED <<cache, reqs>>
         ELSE /\ cache' = IF cache[cacheKey] = Absent THEN Save(cache, cacheKey, StringVal(value)) ELSE cache
              /\ reqs' = Collect(reqs, cache')
              /\ last' = Step("ISaveAs", <<value, cacheKey>>, Ok, NoDispatch)

ISaveAs(value, cacheKey) ==
  /\ UNCHANGED <<debug, now, sent, served, callers>>
  /\ IF value = ""
       THEN /\ last' = Step("ISaveAs", <<value, cacheKey>>, Err("ErrGdutils", "pass any value", <<>>), NoDispatch)
            /\ UNCHANGED <<cache, reqs>>
       ELSE IF cacheKey = ""
         THEN /\ last' = Step("ISaveAs", <<value, cacheKey>>, Err("ErrGdutils", "empty cacheKey", <<>>), NoDispatch)
              /\ UNCHANGED <<cache, reqs>>
         ELSE /\ cache' = Save(cache, cacheKey, StringVal(value))
              /\ reqs' = Collect(reqs, cache')
              /\ last' = Step("ISaveAs", <<value, cacheKey>>, Ok, NoDispatch)

(***************************************************************************)
(* IPrepareNewRequestToAndSaveItAs                                         *)
(***************************************************************************)
\* the error of Replace is not looked at
IPrepareNewRequestToAndSaveItAs_ignoresReplaceError(method, urlTemplate, cacheKey) ==
  LET url == Replace(urlTemplate, All(cache))
      op == "IPrepareNewRequestToAndSaveItAs" IN
  /\ UNCHANGED <<debug, now, sent, served, callers>>
  /\ IF ~ValidURL(url.out)
       THEN /\ last' = Step(op, <<method, urlTemplate, cacheKey>>, Err("ErrHTTPReqRes", "could not create new request", <<>>), NoDispatch)
            /\ UNCHANGED <<cache, reqs>>
       ELSE /\ Allocated # ReqIds
            /\ cache' = Save(cache, cacheKey, RequestVal(FreshId))
            /\ reqs' = Collect([reqs EXCEPT ![FreshId] = NewRequest(method, url.out, <<>>)], cache')
            /\ last' = Step(op, <<method, urlTemplate, cacheKey>>, Ok, NoDispatch)

IPrepareNewRequestToAndSaveItAs(method, urlTemplate, cacheKey) ==
  LET url == Replace(urlTemplate, All(cache))
      op == "IPrepareNewRequestToAndSaveItAs" IN
  /\ UNCHANGED <<debug, now, sent, served, callers>>
  /\ IF Failed(url.err)
       THEN /\ last' = Step(op, <<method, urlTemplate, cacheKey>>, url.err, NoDispatch)
            /\ UNCHANGED <<cache, reqs>>
       ELSE IF ~ValidURL(url.out)
         THEN /\ last' = Step(op, <<method, urlTemplate, cacheKey>>, Err("ErrHTTPReqRes", "could not create new request", <<>>), NoDispatch)
              /\ UNCHANGED <<cache, reqs>>
         ELSE /\ Allocated # ReqIds
              /\ cache' = Save(cache, cacheKey, RequestVal(FreshId))
              /\ reqs' = Collect([reqs EXCEPT ![FreshId] = NewRequest(method, url.out, <<>>)], cache')
              /\ last' = Step(op, <<method, urlTemplate, cacheKey>>, Ok, NoDispatch)

(***************************************************************************)
(* ISetFollowingHeadersForPreparedRequest                                  *)
(***************************************************************************)
ISetFollowingHeadersForPreparedRequest(cacheKey, headersTemplate) ==
  LET headers == ReplaceHeaders(headersTemplate, All(cache))
      req == getPreparedRequest(cacheKey)
      op == "ISetFollowingHeadersForPreparedRequest" IN
  /\ UNCHANGED <<debug, now, sent, served, callers>>
  /\ IF Failed(headers.err)
       THEN /\ last' = Step(op, <<cacheKey, headersTemplate>>, headers.err, NoDispatch)
            /\ UNCHANGED <<cache, reqs>>
       ELSE IF ~headers.out.valid
         THEN /\ last' = Step(op, <<cacheKey, headersTemplate>>, Err("ErrGdutils", "could not parse provided headers", <<>>), NoDispatch)
              /\ UNCHANGED <<cache, reqs>>
         ELSE IF Failed(req.err)
           THEN /\ last' = Step(op, <<cacheKey, headersTemplate>>, req.err, NoDispatch)
                /\ UNCHANGED <<cache, reqs>>
           ELSE /\ reqs' = [reqs EXCEPT ![req.id] = WithHeaders(@, headers.out.map)]
                /\ cache' = Save(cache, cacheKey, RequestVal(req.id))
                /\ last' = Step(op, <<cacheKey, headersTemplate>>, Ok, NoDispatch)

(***************************************************************************)
(* ISetFollowingBodyForPreparedRequest                                     *)
(***************************************************************************)
ISetFollowingBodyForPreparedRequest(cacheKey, bodyTemplate) ==
  LET body == Replace(bodyTemplate, All(cache))
      req == getPreparedRequest(cacheKey)
      op == "ISetFollowingBodyForPreparedRequest" IN
  /\ UNCHANGED <<debug, now, sent, served, callers>>
  /\ IF Failed(body.err)
       THEN /\ last' = Step(op, <<cacheKey, bodyTemplate>>, body.err, NoDispatch)
            /\ UNCHANGED <<cache, reqs>>
       ELSE IF Failed(req.err)
         THEN /\ last' = Step(op, <<cacheKey, bodyTemplate>>, req.err, NoDispatch)
              /\ UNCHANGED <<cache, reqs>>
         ELSE /\ reqs' = [reqs EXCEPT ![req.id] = WithBody(@, body.out)]
              /\ cache' = Save(cache, cacheKey, RequestVal(req.id))
              /\ last' = Step(op, <<cacheKey, bodyTemplate>>, Ok, NoDispatch)

(***************************************************************************)
(* ISendRequest.  outcome is what the wrapped transport answers, elapsed   *)
(* the time the exchange takes.  The clock moves on between two steps.     *)
(***************************************************************************)
ISendRequest(cacheKey, outcome, elapsed) ==
  LET req == getPreparedRequest(cacheKey)
      op == "ISendRequest"
      t0 == now + 1
      t1 == t0 + elapsed
      beforeDo == BeforeDo(cache, t0) IN
  /\ UNCHANGED <<debug, callers>>
  /\ IF Failed(req.err)
       THEN /\ last' = Step(op, <<cacheKey>>, req.err, NoDispatch)
            /\ UNCHANGED <<cache, reqs, now, sent, served>>
       ELSE /\ now < MaxClock
            /\ cache' = AfterDo(beforeDo, outcome, t1)
            /\ reqs' = Collect([reqs EXCEPT ![req.id] = RoundTrip(@)], cache')
            /\ now' = IF TransportFailed(outcome) THEN t0 ELSE t1
            /\ sent' = IF TransportFailed(outcome) THEN sent ELSE sent \cup {req.id}
            /\ served' = IF TransportFailed(outcome) THEN served ELSE outcome
            /\ last' = Step(op, <<cacheKey>>, DoError(outcome),
                            Dispatch(req.id, reqs[req.id], beforeDo))

(***************************************************************************)
(* ISendRequestToWithBodyAndHeaders.  The body/headers document: valid     *)
(* tells whether the Deserializer accepts it, ref is the cache key its     *)
(* placeholder names, Body and Headers what it decodes to ("$" stands for  *)
(* the placeholder).                                                       *)
(***************************************************************************)
NilBody == [k |-> "nil"]

StrBody(str) == [s |-> str, k |-> "string"]

MapBody == [k |-> "map"]

BodyHeaders(valid, ref, body, headers) ==
  [ref |-> ref, Body |-> body, valid |-> valid, Headers |-> headers]

NoHeaders == [h \in {} |-> ""]

BodyHeadersTemplates ==
  { BodyHeaders(TRUE, NoRef, MapBody, [h \in {"A"} |-> "1"]),
    BodyHeaders(TRUE, "k2", StrBody("$"), [h \in {"B"} |-> "$"]),
    BodyHeaders(TRUE, NoRef, NilBody, NoHeaders),
    BodyHeaders(FALSE, NoRef, NilBody, NoHeaders) }

Subst(str, out) == IF str = "$" THEN out ELSE str

\* TemplateEngine.Replace on a body/headers document
ReplaceBodyHeaders(doc, snapshot) ==
  LET r == Replace(Tmpl("", doc.ref), snapshot) IN
  [err |-> r.err,
   out |-> [doc EXCEPT
              !.Body = IF @.k = "string" THEN StrBody(Subst(@.s, r.out)) ELSE @,
              !.Headers = [h \in DOMAIN doc.Headers |-> Subst(doc.Headers[h], r.out)]]]

\* json.Marshal of the decoded body
JSONMarshal(body) ==
  CASE body.k = "nil" -> "null"
    [] body.k = "string" -> "\"" \o body.s \o "\""
    [] body.k = "map" -> "{\"a\":1}"

\* the request is kept: it is saved under k1 before it is sent
ISendRequestToWithBodyAndHeaders_keepsRequest(method, urlTemplate, bodyTemplate, outcome, elapsed) ==
  LET input == ReplaceBodyHeaders(bodyTemplate, All(cache))
      url == Replace(urlTemplate, All(cache))
      bodyAndHeaders == input.out
      reqBody == JSONMarshal(bodyAndHeaders.Body)
      req == [NewRequest(method, url.out, <<reqBody>>) EXCEPT
                !.Header = SetHeaders(@, bodyAndHeaders.Headers)]
      op == "ISendRequestToWithBodyAndHeaders"
      args == <<method, urlTemplate, bodyTemplate>>
      t0 == now + 1
      t1 == t0 + elapsed
      kept == Collect(reqs, Save(cache, "k1", Absent))
      id == CHOOSE i \in ReqIds : kept[i] \in {NoReq, Garbage}
      beforeDo == BeforeDo(Save(cache, "k1", RequestVal(id)), t0) IN
  /\ UNCHANGED <<debug, callers>>
  /\ IF Failed(input.err) \/ Failed(url.err) \/ ~bodyAndHeaders.valid \/ ~ValidURL(url.out)
       THEN /\ last' = Step(op, args, Err("ErrGdutils", "not sent", <<>>), NoDispatch)
            /\ UNCHANGED <<cache, reqs, now, sent, served>>
       ELSE /\ now < MaxClock
            /\ cache' = AfterDo(beforeDo, outcome, t1)
            /\ reqs' = Collect([kept EXCEPT ![id] = RoundTrip(req)], cache')
            /\ now' = IF TransportFailed(outcome) THEN t0 ELSE t1
            /\ sent' = IF TransportFailed(outcome) THEN sent ELSE sent \cup {id}
            /\ served' = IF TransportFailed(outcome) THEN served ELSE outcome
            /\ last' = Step(op, args, DoError(outcome), Dispatch(id, req, beforeDo))

ISendRequestToWithBodyAndHeaders(method, urlTemplate, bodyTemplate, outcome, elapsed) ==
  LET input == ReplaceBodyHeaders(bodyTemplate, All(cache))
      url == Replace(urlTemplate, All(cache))
      bodyAndHeaders == input.out
      reqBody == JSONMarshal(bodyAndHeaders.Body)
      req == [NewRequest(method, url.out, <<reqBody>>) EXCEPT
                !.Header = SetHeaders(@, bodyAndHeaders.Headers)]
      op == "ISendRequestToWithBodyAndHeaders"
      args == <<method, urlTemplate, bodyTemplate>>
      t0 == now + 1
      t1 == t0 + elapsed
      beforeDo == BeforeDo(cache, t0) IN
  /\ UNCHANGED <<debug, sent, callers>>
  /\ IF Failed(input.err)
       THEN /\ last' = Step(op, args, input.err, NoDispatch)
            /\ UNCHANGED <<cache, reqs, now, served>>
       ELSE IF Failed(url.err)
         THEN /\ last' = Step(op, args, url.err, NoDispatch)
              /\ UNCHANGED <<cache, reqs, now, served>>
         ELSE IF ~bodyAndHeaders.valid
           THEN /\ last' = Step(op, args, Err("ErrJson", "deserialize", <<>>), NoDispatch)
                /\ UNCHANGED <<cache, reqs, now, served>>
           ELSE IF ~ValidURL(url.out)
             THEN /\ last' = Step(op, args, Err("ErrHTTPReqRes", "could not create new request", <<>>), NoDispatch)
                  /\ UNCHANGED <<cache, reqs, now, served>>
             ELSE /\ now < MaxClock
                  /\ cache' = AfterDo(beforeDo, outcome, t1)
                  /\ reqs' = Collect(reqs, cache')
                  /\ now' = IF TransportFailed(outcome) THEN t0 ELSE t1
                  /\ served' = IF TransportFailed(outcome) THEN served ELSE outcome
                  /\ last' = Step(op, args, DoError(outcome), Dispatch(0, req, beforeDo))

(***************************************************************************)
(* HttpContext: the last response is the *http.Response the send paths     *)
(* saved under LastHTTPResponseCacheKey; its body is buffered and can be   *)
(* read again.                                                             *)
(***************************************************************************)
GetLastResponse ==
  LET got == GetSaved(cache, LastHTTPResponseCacheKey) IN
  IF Failed(got.err)
    THEN [err |-> Err("ErrHTTPCtx", "no last response", <<>>), resp |-> NoResponse]
    ELSE IF got.value.t # "response"
      THEN [err |-> Err("ErrHTTPCtx", "not *http.Response", <<>>), resp |-> NoResponse]
      ELSE [err |-> Ok, resp |-> got.value.r]

GetLastResponseBody ==
  LET got == GetLastResponse IN
  IF Failed(got.err) THEN [err |-> got.err, body |-> ""] ELSE [err |-> Ok, body |-> got.resp.Body]

\* http.Header.Get: the first value of the header, "" when there is none
HeaderGet(header, name) == IF header[name] = <<>> THEN "" ELSE Head(header[name])

(***************************************************************************)
(* JSON documents and the path resolver.  A node is the interface{} the    *)
(* resolver returns; a float64 is held in tenths (55 is 5.5).              *)
(***************************************************************************)
NilNode == [k |-> "nil"]

StringNode(str) == [s |-> str, k |-> "string"]

Float64Node(tenths) == [k |-> "float64", tenths |-> tenths]

Int64Node(i) == [i |-> i, k |-> "int64"]

BoolNode(b) == [b |-> b, k |-> "bool"]

MapNode == [k |-> "map"]

SliceNode(len) == [k |-> "slice", len |-> len]

Unresolved == [k |-> "unresolved"]

Exprs == {"n", "s", "i", "f", "b", "m", "l", "j", "h", "zz"}

Document(name) ==
  CASE name = "doc1" ->
         [e \in Exprs |->
            CASE e = "n" -> NilNode
              [] e = "s" -> StringNode("abc")
              [] e = "i" -> Float64Node(50)
              [] e = "f" -> Float64Node(55)
              [] e = "l" -> SliceNode(3)
              [] e = "h" -> Float64Node(1000)
              [] OTHER -> Unresolved]
    [] name = "doc2" ->
         [e \in Exprs |->
            CASE e = "b" -> BoolNode(TRUE)
              [] e = "m" -> MapNode
              [] e = "l" -> SliceNode(0)
              [] e = "j" -> Int64Node(7)
              [] e = "f" -> Float64Node(-57)
              [] OTHER -> Unresolved]
    [] OTHER -> [e \in Exprs |-> Unresolved]

\* dataformat.IsJSON
IsJSON(body) == body \in {"doc1", "doc2"}

\* JSONPathResolver.Resolve
Resolve(expr, body) ==
  IF Document(body)[expr] = Unresolved
    THEN [err |-> Err("ErrPathfinder", "could not find node", <<expr>>), value |-> NilNode]
    ELSE [err |-> Ok, value |-> Document(body)[expr]]

\* the two results of math.Modf taken in the wrong order: the integer part
Frac_integerPart(tenths) == IF tenths >= 0 THEN tenths \div 10 ELSE -((-tenths) \div 10)

\* math.Modf(f): the fractional part, with the sign of f
Frac(tenths) == IF tenths >= 0 THEN tenths % 10 ELSE -((-tenths) % 10)

(***************************************************************************)
(* TheResponseStatusCodeShouldBe                                           *)
(***************************************************************************)
\* the codes are compared with > in place of !=
TheResponseStatusCodeShouldBe_atMost(code) ==
  LET lastResponse == GetLastResponse IN
  IF Failed(lastResponse.err)
    THEN lastResponse.err
    ELSE IF lastResponse.resp.StatusCode > code
      THEN Err("ErrHTTPReqRes", "expected status code %d, but got %d",
               <<code, lastResponse.resp.StatusCode>>)
      ELSE Ok

TheResponseStatusCodeShouldBe(code) ==
  LET lastResponse == GetLastResponse IN
  IF Failed(lastResponse.err)
    THEN lastResponse.err
    ELSE IF lastResponse.resp.StatusCode # code
      THEN Err("ErrHTTPReqRes", "expected status code %d, but got %d",
               <<code, lastResponse.resp.StatusCode>>)
      ELSE Ok

(***************************************************************************)
(* TheResponseBodyShouldHaveFormat                                         *)
(***************************************************************************)
FormatJSON == "JSON"

FormatPlainText == "plain text"

DataFormats == {FormatJSON, FormatPlainText, "XML"}

\* the plain text case returns the error of IsJSON: not JSON is a failure
TheResponseBodyShouldHaveFormat_plainIsJSON(dataFormat) ==
  LET body == GetLastResponseBody IN
  CASE dataFormat = FormatJSON ->
         IF Failed(body.err) THEN body.err
         ELSE IF IsJSON(body.body) THEN Ok
         ELSE Err("ErrDataformat", "body is not JSON", <<>>)
    [] dataFormat = FormatPlainText ->
         IF Failed(body.err) THEN body.err
         ELSE IF IsJSON(body.body) THEN Ok
         ELSE Err("ErrDataformat", "body is not JSON", <<>>)
    [] OTHER -> Err("ErrHTTPReqRes", "unknown last response body data type", <<>>)

TheResponseBodyShouldHaveFormat(dataFormat) ==
  LET body == GetLastResponseBody IN
  CASE dataFormat = FormatJSON ->
         IF Failed(body.err) THEN body.err
         ELSE IF IsJSON(body.body) THEN Ok
         ELSE Err("ErrDataformat", "body is not JSON", <<>>)
    [] dataFormat = FormatPlainText ->
         IF Failed(body.err) THEN body.err
         ELSE IF ~IsJSON(body.body) THEN Ok
         ELSE Err("ErrHTTPReqRes", "last response body has type JSON", <<>>)
    [] OTHER -> Err("ErrHTTPReqRes", "unknown last response body data type", <<>>)

(***************************************************************************)
(* TheJSONResponseShouldHaveNode                                           *)
(***************************************************************************)
TheJSONResponseShouldHaveNode(expr) ==
  LET body == GetLastResponseBody
      node == Resolve(expr, body.body) IN
  IF Failed(body.err) THEN body.err
  ELSE IF Failed(node.err) THEN Err("ErrQJSON", "node", <<expr>>)
  ELSE Ok

(***************************************************************************)
(* TheJSONNodeShouldNotBe, TheJSONNodeShouldBe                             *)
(***************************************************************************)
GoTypes == {"nil", "string", "int", "float", "bool", "map", "slice"}

\* reflect kinds of the integer types
IntKinds == {"int64", "int32", "int16", "int8", "int", "uint", "uint8", "uint16", "uint32", "uint64"}

\* "float" is decided by the kind alone: every float64 is a float
TheJSONNodeShouldNotBe_floatByKind(expr, goType) ==
  LET body == GetLastResponseBody
      iNodeVal == Resolve(expr, body.body)
      vNodeVal == iNodeVal.value
      errInvalidType == Err("ErrGdutils", "value is of the type, but expected not to be", <<expr, goType>>) IN
  IF Failed(body.err) THEN body.err
  ELSE IF Failed(iNodeVal.err) THEN Err("ErrQJSON", "node", <<expr>>)
  ELSE CASE goType = "nil" -> IF vNodeVal.k = "nil" THEN errInvalidType ELSE Ok
         [] goType = "string" -> IF vNodeVal.k = "string" THEN errInvalidType ELSE Ok
         [] goType = "int" ->
              IF vNodeVal.k \in IntKinds THEN errInvalidType
              ELSE IF vNodeVal.k = "float64" /\ Frac(vNodeVal.tenths) = 0 THEN errInvalidType
              ELSE Ok
         [] goType = "float" ->
              IF vNodeVal.k \in {"float64", "float32"} THEN errInvalidType ELSE Ok
         [] goType = "bool" -> IF vNodeVal.k = "bool" THEN errInvalidType ELSE Ok
         [] goType = "map" -> IF vNodeVal.k = "map" THEN errInvalidType ELSE Ok
         [] goType = "slice" -> IF vNodeVal.k = "slice" THEN errInvalidType ELSE Ok
         [] OTHER -> Err("ErrGdutils", "is unknown type for this step", <<goType>>)

TheJSONNodeShouldNotBe(expr, goType) ==
  LET body == GetLastResponseBody
      iNodeVal == Resolve(expr, body.body)
      vNodeVal == iNodeVal.value
      errInvalidType == Err("ErrGdutils", "value is of the type, but expected not to be", <<expr, goType>>) IN
  IF Failed(body.err) THEN body.err
  ELSE IF Failed(iNodeVal.err) THEN Err("ErrQJSON", "node", <<expr>>)
  ELSE CASE goType = "nil" -> IF vNodeVal.k = "nil" THEN errInvalidType ELSE Ok
         [] goType = "string" -> IF vNodeVal.k = "string" THEN errInvalidType ELSE Ok
         [] goType = "int" ->
              IF vNodeVal.k \in IntKinds THEN errInvalidType
              ELSE IF vNodeVal.k = "float64" /\ Frac(vNodeVal.tenths) = 0 THEN errInvalidType
              ELSE Ok
         [] goType = "float" ->
              IF vNodeVal.k \in {"float64", "float32"}
                THEN IF Frac(vNodeVal.tenths) = 0 THEN Ok ELSE errInvalidType
                ELSE Ok
         [] goType = "bool" -> IF vNodeVal.k = "bool" THEN errInvalidType ELSE Ok
         [] goType = "map" -> IF vNodeVal.k = "map" THEN errInvalidType ELSE Ok
         [] goType = "slice" -> IF vNodeVal.k = "slice" THEN errInvalidType ELSE Ok
         [] OTHER -> Err("ErrGdutils", "is unknown type for this step", <<goType>>)

\* the test of the error of TheJSONNodeShouldNotBe, inverted
TheJSONNodeShouldBe_inverted(expr, goType) ==
  LET errInvalidType == Err("ErrGdutils", "value is not of the type, but expected to be", <<expr, goType>>) IN
  IF goType = "float"
    THEN IF Failed(TheJSONNodeShouldNotBe(expr, goType)) THEN errInvalidType ELSE Ok
    ELSE IF ~Failed(TheJSONNodeShouldNotBe(expr, goType)) THEN errInvalidType ELSE Ok

\* the switch has no default case: every tag is handed to TheJSONNodeShouldNotBe
TheJSONNodeShouldBe_noDefault(expr, goType) ==
  LET errInvalidType == Err("ErrGdutils", "value is not of the type, but expected to be", <<expr, goType>>) IN
  IF ~Failed(TheJSONNodeShouldNotBe(expr, goType)) THEN errInvalidType ELSE Ok

TheJSONNodeShouldBe(expr, goType) ==
  LET errInvalidType == Err("ErrGdutils", "value is not of the type, but expected to be", <<expr, goType>>) IN
  IF goType \in GoTypes
    THEN IF ~Failed(TheJSONNodeShouldNotBe(expr, goType)) THEN errInvalidType ELSE Ok
    ELSE Err("ErrGdutils", "is unknown type for this step", <<goType>>)

(***************************************************************************)
(* TheJSONResponseShouldHaveNodes.  expressions is the text split at its   *)
(* commas; each piece is <<leading blanks, expression, trailing blanks>>.  *)
(***************************************************************************)
TrimSpace(piece) == piece[2]

\* the loop returns at the first expression that does not resolve
RECURSIVE NodeErrors_firstOnly(_, _)
NodeErrors_firstOnly(keysSlice, body) ==
  IF keysSlice = <<>> THEN <<>>
  ELSE LET trimmedKey == TrimSpace(Head(keysSlice)) IN
       IF Failed(Resolve(trimmedKey, body).err)
         THEN <<trimmedKey>>
         ELSE NodeErrors_firstOnly(Tail(keysSlice), body)

RECURSIVE NodeErrors(_, _)
NodeErrors(keysSlice, body) ==
  IF keysSlice = <<>> THEN <<>>
  ELSE LET trimmedKey == TrimSpace(Head(keysSlice))
           rest == NodeErrors(Tail(keysSlice), body) IN
       IF Failed(Resolve(trimmedKey, body).err) THEN <<trimmedKey>> \o rest ELSE rest

TheJSONResponseShouldHaveNodes(expressions) ==
  LET body == GetLastResponseBody
      errs == NodeErrors(expressions, body.body) IN
  IF Failed(body.err) THEN body.err
  ELSE IF Len(errs) > 0 THEN Err("errors.New", "nodes", errs)
  ELSE Ok

(***************************************************************************)
(* TheJSONNodeShouldBeSliceOfLength                                        *)
(***************************************************************************)
\* the lengths are compared with < in place of !=
TheJSONNodeShouldBeSliceOfLength_atLeast(expr, length) ==
  LET body == GetLastResponseBody
      iValue == Resolve(expr, body.body)
      v == iValue.value IN
  IF Failed(body.err) THEN body.err
  ELSE IF Failed(iValue.err) THEN Err("ErrQJSON", "node", <<expr>>)
  ELSE IF v.k = "slice"
    THEN IF v.len < length
           THEN Err("ErrGdutils", "slice has length: %d, expected: %d", <<expr, v.len, length>>)
           ELSE Ok
    ELSE Err("ErrGdutils", "does not point at slice(array)", <<expr>>)

TheJSONNodeShouldBeSliceOfLength(expr, length) ==
  LET body == GetLastResponseBody
      iValue == Resolve(expr, body.body)
      v == iValue.value IN
  IF Failed(body.err) THEN body.err
  ELSE IF Failed(iValue.err) THEN Err("ErrQJSON", "node", <<expr>>)
  ELSE IF v.k = "slice"
    THEN IF v.len # length
           THEN Err("ErrGdutils", "slice has length: %d, expected: %d", <<expr, v.len, length>>)
           ELSE Ok
    ELSE Err("ErrGdutils", "does not point at slice(array)", <<expr>>)

(***************************************************************************)
(* TheJSONNodeShouldBeOfValue.  strconv on the texts the steps are given:  *)
(* Literal(str) is the number a text denotes, in tenths, if it is one.     *)
(***************************************************************************)
NaN == [ok |-> FALSE, tenths |-> 0, point |-> FALSE]

Number(tenths, point) == [ok |-> TRUE, tenths |-> tenths, point |-> point]

\* point: the text has a decimal point
Literal(str) ==
  CASE str = "5" -> Number(50, FALSE)
    [] str = "7" -> Number(70, FALSE)
    [] str = "-5" -> Number(-50, FALSE)
    [] str = "-8" -> Number(-80, FALSE)
    [] str = "5.0" -> Number(50, TRUE)
    [] str = "5.5" -> Number(55, TRUE)
    [] str = "-5.7" -> Number(-57, TRUE)
    [] OTHER -> NaN

\* strconv.Atoi: digits with an optional sign, nothing else
Atoi(str) ==
  IF Literal(str).ok /\ ~Literal(str).point
    THEN [ok |-> TRUE, i |-> Literal(str).tenths \div 10]
    ELSE [ok |-> FALSE, i |-> 0]

\* strconv.ParseFloat
ParseFloat(str) == [ok |-> Literal(str).ok, tenths |-> Literal(str).tenths]

\* strconv.ParseBool
ParseBool(str) ==
  CASE str \in {"1", "t", "T", "TRUE", "true", "True"} -> [ok |-> TRUE, b |-> TRUE]
    [] str \in {"0", "f", "F", "FALSE", "false", "False"} -> [ok |-> TRUE, b |-> FALSE]
    [] OTHER -> [ok |-> FALSE, b |-> FALSE]

\* int(floatVal): truncation toward zero
Trunc(tenths) == IF tenths >= 0 THEN tenths \div 10 ELSE -((-tenths) \div 10)

\* The range of the Go type int, scaled down: MaxInt stands for 1<<63 - 1 and
\* MinInt for -1<<63.  The float64 100.0 of the documents stands for a JSON
\* number such as 1e19, too large for an int.
MaxInt == 7

MinInt == -MaxInt - 1

\* the architectures the program is built for
Archs == {"amd64", "arm64"}

\* intVal := int(floatVal).  When the truncated value is not one of the type
\* int the conversion succeeds and its result depends on the implementation:
\* the amd64 instruction yields the smallest int, the arm64 one saturates
IntOfFloat(tenths, arch) ==
  IF Trunc(tenths) \in MinInt..MaxInt THEN Trunc(tenths)
  ELSE IF arch = "amd64" \/ tenths < 0 THEN MinInt
  ELSE MaxInt

DataTypes == {"string", "int", "float", "bool", "slice"}

DataValues ==
  {Tmpl("7", NoRef), Tmpl("", "k2"), Tmpl("abc", NoRef), Tmpl("5", NoRef), Tmpl("-5", NoRef),
   Tmpl("-8", NoRef), Tmpl("5.5", NoRef), Tmpl("true", NoRef)}

\* the switch has a default case that rejects the data type
TheJSONNodeShouldBeOfValue_defaultRejects(expr, dataType, dataValue, arch) ==
  LET nodeValueReplaced == Replace(dataValue, All(cache))
      body == GetLastResponseBody
      resolved == Resolve(expr, body.body) IN
  IF Failed(nodeValueReplaced.err) THEN nodeValueReplaced.err
  ELSE IF Failed(body.err) THEN body.err
  ELSE IF Failed(resolved.err) THEN Err("ErrQJSON", "node", <<expr>>)
  ELSE Err("ErrGdutils", "is unknown type for this step", <<dataType>>)

TheJSONNodeShouldBeOfValue(expr, dataType, dataValue, arch) ==
  LET nodeValueReplaced == Replace(dataValue, All(cache))
      body == GetLastResponseBody
      resolved == Resolve(expr, body.body)
      iValue == resolved.value
      str == nodeValueReplaced.out
      errType == Err("ErrGdutils", "expected node to be of the type", <<expr, dataType>>)
      errConv == Err("ErrGdutils", "replaced value could not be converted", <<expr, str>>)
      errNeq == Err("ErrGdutils", "node value is not equal to expected value", <<expr, str>>) IN
  IF Failed(nodeValueReplaced.err) THEN nodeValueReplaced.err
  ELSE IF Failed(body.err) THEN body.err
  ELSE IF Failed(resolved.err) THEN Err("ErrQJSON", "node", <<expr>>)
  ELSE CASE dataType = "string" ->
              IF iValue.k # "string" THEN errType
              ELSE IF iValue.s # str THEN errNeq
              ELSE Ok
         [] dataType = "int" ->
              IF iValue.k # "float64" THEN errType
              ELSE IF ~Atoi(str).ok THEN errConv
              ELSE IF IntOfFloat(iValue.tenths, arch) # Atoi(str).i THEN errNeq
              ELSE Ok
         [] dataType = "float" ->
              IF iValue.k # "float64" THEN errType
              ELSE IF ~ParseFloat(str).ok THEN errConv
              ELSE IF iValue.tenths # ParseFloat(str).tenths THEN errNeq
              ELSE Ok
         [] dataType = "bool" ->
              IF iValue.k # "bool" THEN errType
              ELSE IF ~ParseBool(str).ok THEN errConv
              ELSE IF iValue.b # ParseBool(str).b THEN errNeq
              ELSE Ok
         [] OTHER -> Ok

(***************************************************************************)
(* TheResponseShouldHaveHeader, TheResponseShouldHaveHeaderOfValue.  The   *)
(* deferred function runs as the step returns: in debug mode it reads the  *)
(* Header field of the last response, a nil pointer when there is none.    *)
(***************************************************************************)
DeferredPrintHeaders(res) ==
  IF debug /\ Failed(GetLastResponse.err) THEN Panic ELSE res

TheResponseShouldHaveHeader(name) ==
  LET lastResp == GetLastResponse IN
  DeferredPrintHeaders(
    IF Failed(lastResp.err) THEN lastResp.err
    ELSE IF HeaderGet(lastResp.resp.Header, name) # "" THEN Ok
    ELSE Err("ErrHTTPReqRes", "could not find header", <<name>>))

HeaderValues == {Tmpl("abc", NoRef), Tmpl("", NoRef), Tmpl("", "k2")}

\* without the test of an empty header and an empty value
TheResponseShouldHaveHeaderOfValue_emptyEqualsEmpty(name, valueTemplate) ==
  LET lastResp == GetLastResponse
      header == HeaderGet(lastResp.resp.Header, name)
      value == Replace(valueTemplate, All(cache)) IN
  DeferredPrintHeaders(
    IF Failed(lastResp.err) THEN Err("ErrHTTPReqRes", lastResp.err.why, <<>>)
    ELSE IF Failed(value.err) THEN Err("ErrGdutils", value.err.why, value.err.text)
    ELSE IF header = value.out THEN Ok
    ELSE Err("ErrHTTPReqRes", "header exists but, expected value is not equal to actual",
             <<name, value.out, header>>))

TheResponseShouldHaveHeaderOfValue(name, valueTemplate) ==
  LET lastResp == GetLastResponse
      header == HeaderGet(lastResp.resp.Header, name)
      value == Replace(valueTemplate, All(cache)) IN
  DeferredPrintHeaders(
    IF Failed(lastResp.err) THEN Err("ErrHTTPReqRes", lastResp.err.why, <<>>)
    ELSE IF Failed(value.err) THEN Err("ErrGdutils", value.err.why, value.err.text)
    ELSE IF header = "" /\ value.out = "" THEN Err("ErrHTTPReqRes", "could not find header", <<name>>)
    ELSE IF header = value.out THEN Ok
    ELSE Err("ErrHTTPReqRes", "header exists but, expected value is not equal to actual",
             <<name, value.out, header>>))

(***************************************************************************)
(* ISaveFromTheLastResponseJSONNodeAs                                      *)
(***************************************************************************)
\* the result of Resolve is saved before its error is looked at
ISaveFromTheLastResponseJSONNodeAs_savesBeforeCheck(expr, cacheKey) ==
  LET body == GetLastResponseBody
      iVal == Resolve(expr, body.body)
      op == "ISaveFromTheLastResponseJSONNodeAs" IN
  /\ UNCHANGED <<debug, now, sent, served, callers>>
  /\ IF Failed(body.err)
       THEN /\ last' = Step(op, <<expr, cacheKey>>, body.err, NoDispatch)
            /\ UNCHANGED <<cache, reqs>>
       ELSE /\ cache' = Save(cache, cacheKey, NodeVal(iVal.value))
            /\ reqs' = Collect(reqs, cache')
            /\ last' = Step(op, <<expr, cacheKey>>,
                            IF Failed(iVal.err) THEN Err("ErrQJSON", iVal.err.why, <<expr>>) ELSE Ok,
                            NoDispatch)

ISaveFromTheLastResponseJSONNodeAs(expr, cacheKey) ==
  LET body == GetLastResponseBody
      iVal == Resolve(expr, body.body)
      op == "ISaveFromTheLastResponseJSONNodeAs" IN
  /\ UNCHANGED <<debug, now, sent, served, callers>>
  /\ IF Failed(body.err)
       THEN /\ last' = Step(op, <<expr, cacheKey>>, body.err, NoDispatch)
            /\ UNCHANGED <<cache, reqs>>
       ELSE IF Failed(iVal.err)
         THEN /\ last' = Step(op, <<expr, cacheKey>>, Err("ErrQJSON", iVal.err.why, <<expr>>), NoDispatch)
              /\ UNCHANGED <<cache, reqs>>
         ELSE /\ cache' = Save(cache, cacheKey, NodeVal(iVal.value))
              /\ reqs' = Collect(reqs, cache')
              /\ last' = Step(op, <<expr, cacheKey>>, Ok, NoDispatch)

(***************************************************************************)
(* TimeBetweenLastHTTPRequestResponseShouldBeLessThanOrEqualTo.  Durations *)
(* are counted in ticks of the clock.                                      *)
(***************************************************************************)
\* the comparison is >= : a difference equal to the interval fails
TimeBetweenLastHTTPRequestResponseShouldBeLessThanOrEqualTo_strict(timeInterval) ==
  LET lastReqTimestampI == GetSaved(cache, LastHTTPRequestTimestamp)
      lastResTimestampI == GetSaved(cache, LastHTTPResponseTimestamp)
      timeBetweenReqRes == lastResTimestampI.value.at - lastReqTimestampI.value.at IN
  IF Failed(lastReqTimestampI.err)
    THEN Err("ErrGdutils", lastReqTimestampI.err.why, lastReqTimestampI.err.text)
  ELSE IF lastReqTimestampI.value.t # "time"
    THEN Err("ErrHTTPReqRes", "should be time.Time", <<"last request timestamp", lastReqTimestampI.value>>)
  ELSE IF Failed(lastResTimestampI.err)
    THEN Err("ErrGdutils", lastResTimestampI.err.why, lastResTimestampI.err.text)
  ELSE IF lastResTimestampI.value.t # "time"
    THEN Err("ErrHTTPReqRes", "should be time.Time", <<"last response timestamp", lastResTimestampI.value>>)
  ELSE IF timeBetweenReqRes >= timeInterval
    THEN Err("ErrHTTPReqRes", "took too long", <<timeInterval, timeBetweenReqRes>>)
  ELSE Ok

TimeBetweenLastHTTPRequestResponseShouldBeLessThanOrEqualTo(timeInterval) ==
  LET lastReqTimestampI == GetSaved(cache, LastHTTPRequestTimestamp)
      lastResTimestampI == GetSaved(cache, LastHTTPResponseTimestamp)
      timeBetweenReqRes == lastResTimestampI.value.at - lastReqTimestampI.value.at IN
  IF Failed(lastReqTimestampI.err)
    THEN Err("ErrGdutils", lastReqTimestampI.err.why, lastReqTimestampI.err.text)
  ELSE IF lastReqTimestampI.value.t # "time"
    THEN Err("ErrHTTPReqRes", "should be time.Time", <<"last request timestamp", lastReqTimestampI.value>>)
  ELSE IF Failed(lastResTimestampI.err)
    THEN Err("ErrGdutils", lastResTimestampI.err.why, lastResTimestampI.err.text)
  ELSE IF lastResTimestampI.value.t # "time"
    THEN Err("ErrHTTPReqRes", "should be time.Time", <<"last response timestamp", lastResTimestampI.value>>)
  ELSE IF timeBetweenReqRes > timeInterval
    THEN Err("ErrHTTPReqRes", "took too long", <<timeInterval, timeBetweenReqRes>>)
  ELSE Ok

(***************************************************************************)
(* The assertion steps: they change nothing but the record of the step.    *)
(***************************************************************************)
Assertion(op, args, res) ==
  /\ last' = Asserted(op, args, res)
  /\ UNCHANGED <<cache, reqs, debug, now, sent, served, callers>>

StepTheResponseStatusCodeShouldBe ==
  \E code \in StatusCodes :
    Assertion("TheResponseStatusCodeShouldBe", <<code>>, TheResponseStatusCodeShouldBe(code))

StepTheResponseBodyShouldHaveFormat ==
  \E dataFormat \in DataFormats :
    Assertion("TheResponseBodyShouldHaveFormat", <<dataFormat>>,
              TheResponseBodyShouldHaveFormat(dataFormat))

StepTheResponseShouldHaveHeader ==
  \E name \in RespHeaderNames :
    Assertion("TheResponseShouldHaveHeader", <<name>>, TheResponseShouldHaveHeader(name))

StepTheResponseShouldHaveHeaderOfValue ==
  \E name \in RespHeaderNames, valueTemplate \in HeaderValues :
    Assertion("TheResponseShouldHaveHeaderOfValue", <<name, valueTemplate>>,
              TheResponseShouldHaveHeaderOfValue(name, valueTemplate))

StepTheJSONResponseShouldHaveNode ==
  \E expr \in Exprs :
    Assertion("TheJSONResponseShouldHaveNode", <<expr>>, TheJSONResponseShouldHaveNode(expr))

ExpressionLists ==
  { <<<<"", "s", "">>>>,
    <<<<"", "s", "">>, <<" ", "i", "">>>>,
    <<<<"", "zz", "">>, <<" ", "zz", "">>>>,
    <<<<"", "zz", " ">>, <<" ", "f", " ">>, <<"", "b", "">>>> }

StepTheJSONResponseShouldHaveNodes ==
  \E expressions \in ExpressionLists :
    Assertion("TheJSONResponseShouldHaveNodes", <<expressions>>,
              TheJSONResponseShouldHaveNodes(expressions))

TypeTags == GoTypes \cup {"object"}

StepTheJSONNodeShouldNotBe(exprs, goTypes) ==
  \E expr \in exprs, goType \in goTypes :
    Assertion("TheJSONNodeShouldNotBe", <<expr, goType>>, TheJSONNodeShouldNotBe(expr, goType))

StepTheJSONNodeShouldBe(exprs, goTypes) ==
  \E expr \in exprs, goType \in goTypes :
    Assertion("TheJSONNodeShouldBe", <<expr, goType>>, TheJSONNodeShouldBe(expr, goType))

StepTheJSONNodeShouldBeSliceOfLength ==
  \E expr \in {"s", "l", "zz"}, length \in {0, 3} :
    Assertion("TheJSONNodeShouldBeSliceOfLength", <<expr, length>>,
              TheJSONNodeShouldBeSliceOfLength(expr, length))

StepTheJSONNodeShouldBeOfValue(exprs, dataTypes, dataValues) ==
  \E expr \in exprs, dataType \in dataTypes, dataValue \in dataValues, arch \in Archs :
    Assertion("TheJSONNodeShouldBeOfValue", <<expr, dataType, dataValue, arch>>,
              TheJSONNodeShouldBeOfValue(expr, dataType, dataValue, arch))

TimeIntervals == {0, 1}

StepTimeBetweenLastHTTPRequestResponseShouldBeLessThanOrEqualTo ==
  \E timeInterval \in TimeIntervals :
    Assertion("TimeBetweenLastHTTPRequestResponseShouldBeLessThanOrEqualTo", <<timeInterval>>,
              TimeBetweenLastHTTPRequestResponseShouldBeLessThanOrEqualTo(timeInterval))

(***************************************************************************)
(* Spec: the request lifecycle, from preparing a request under k1 to       *)
(* asserting on the status of its response.  k2 holds no request.          *)
(***************************************************************************)
Next ==
  \/ ResetState(FALSE)
  \/ \E cacheKey \in {"k2", LastHTTPResponseTimestamp} : ISaveAs("v", cacheKey)
  \/ IPrepareNewRequestToAndSaveItAs("POST", Tmpl("http://h/", NoRef), "k1")
  \/ \E cacheKey \in UserKeys,
        headersTemplate \in {HeadersDoc(FALSE, "k2", [h \in {"A"} |-> "$"]),
                             HeadersDoc(TRUE, NoRef, [h \in {"A"} |-> "1"])} :
       ISetFollowingHeadersForPreparedRequest(cacheKey, headersTemplate)
  \/ \E cacheKey \in UserKeys, bodyTemplate \in BodyTemplates :
       ISetFollowingBodyForPreparedRequest(cacheKey, bodyTemplate)
  \/ \E cacheKey \in UserKeys, outcome \in Outcomes, elapsed \in {0, 1} :
       ISendRequest(cacheKey, outcome, elapsed)
  \/ \E outcome \in Outcomes, elapsed \in {0, 1} :
       ISendRequestToWithBodyAndHeaders("POST", Tmpl("http://h/", NoRef),
         BodyHeaders(TRUE, NoRef, MapBody, [h \in {"A"} |-> "1"]), outcome, elapsed)
  \/ StepTheResponseStatusCodeShouldBe

Spec == Init /\ [][Next]_vars

(***************************************************************************)
(* SpecPrepared: building a prepared request under k1, before it is sent.  *)
(***************************************************************************)
NextPrepared ==
  \/ \E value \in {"v", ""}, cacheKey \in {"k2", ""} : ISaveAs(value, cacheKey)
  \/ \E method \in Methods, urlTemplate \in URLTemplates :
       IPrepareNewRequestToAndSaveItAs(method, urlTemplate, "k1")
  \/ \E cacheKey \in UserKeys, headersTemplate \in HeadersTemplates :
       ISetFollowingHeadersForPreparedRequest(cacheKey, headersTemplate)
  \/ \E cacheKey \in UserKeys, bodyTemplate \in BodyTemplates :
       ISetFollowingBodyForPreparedRequest(cacheKey, bodyTemplate)

SpecPrepared == Init /\ [][NextPrepared]_vars

(***************************************************************************)
(* The one-shot send of a fixed request: it stores the last response the   *)
(* assertions read.                                                        *)
(***************************************************************************)
SendOnce ==
  \E outcome \in Outcomes :
    ISendRequestToWithBodyAndHeaders("POST", Tmpl("http://h/", NoRef),
      BodyHeaders(TRUE, NoRef, MapBody, [h \in {"A"} |-> "1"]), outcome, 1)

(***************************************************************************)
(* SpecAssertions: every assertion on the last response.                   *)
(***************************************************************************)
NextAssertions ==
  \/ \E isDebug \in BOOLEAN : ResetState(isDebug)
  \/ IStartDebugMode
  \/ IStopDebugMode
  \/ \E cacheKey \in {"k2", LastHTTPResponseCacheKey} : ISaveAs("abc", cacheKey)
  \/ SendOnce
  \/ StepTheResponseStatusCodeShouldBe
  \/ StepTheResponseBodyShouldHaveFormat
  \/ StepTheResponseShouldHaveHeader
  \/ StepTheResponseShouldHaveHeaderOfValue
  \/ StepTheJSONResponseShouldHaveNode
  \/ StepTheJSONResponseShouldHaveNodes
  \/ StepTheJSONNodeShouldNotBe({"s", "zz"}, {"string", "int"})
  \/ StepTheJSONNodeShouldBe({"s", "zz"}, {"string", "int"})
  \/ StepTheJSONNodeShouldBeSliceOfLength
  \/ StepTheJSONNodeShouldBeOfValue({"s", "zz"}, {"string", "slice"}, {Tmpl("", "k2"), Tmpl("abc", NoRef)})

SpecAssertions == Init /\ [][NextAssertions]_vars

(***************************************************************************)
(* SpecNodes: the type assertions on every node of the last response body. *)
(***************************************************************************)
NextNodes ==
  \/ ResetState(FALSE)
  \/ SendOnce
  \/ StepTheJSONNodeShouldNotBe(Exprs, TypeTags)
  \/ StepTheJSONNodeShouldBe(Exprs, TypeTags)

SpecNodes == Init /\ [][NextNodes]_vars

(***************************************************************************)
(* SpecValues: the value assertion on the strings and the numbers of the   *)
(* last response body, for every expected value.                           *)
(***************************************************************************)
NextValues ==
  \/ ResetState(FALSE)
  \/ \E value \in {"abc", "5"} : ISaveAs(value, "k2")
  \/ SendOnce
  \/ StepTheJSONNodeShouldBeOfValue({"s", "h", "j", "f", "zz"}, {"string", "slice", "int"}, DataValues)

SpecValues == Init /\ [][NextValues]_vars

(***************************************************************************)
(* SpecSlot: sends through both paths, and saving steps that write under   *)
(* a user key or under the key of the last response.                       *)
(***************************************************************************)
NextSlot ==
  \/ ResetState(FALSE)
  \/ \E cacheKey \in {"k2", LastHTTPResponseCacheKey} : ISaveAs("v", cacheKey)
  \/ \E cacheKey \in {"k1", LastHTTPResponseCacheKey} :
       IPrepareNewRequestToAndSaveItAs("POST", Tmpl("http://h/", NoRef), cacheKey)
  \/ \E expr \in {"s", "zz"}, cacheKey \in {"k2", LastHTTPResponseCacheKey} :
       ISaveFromTheLastResponseJSONNodeAs(expr, cacheKey)
  \/ \E cacheKey \in {"k1", LastHTTPResponseCacheKey}, outcome \in Outcomes :
       ISendRequest(cacheKey, outcome, 0)
  \/ \E outcome \in Outcomes :
       ISendRequestToWithBodyAndHeaders("POST", Tmpl("http://h/", NoRef),
         BodyHeaders(TRUE, NoRef, MapBody, [h \in {"A"} |-> "1"]), outcome, 0)
  \/ StepTheResponseStatusCodeShouldBe

SpecSlot == Init /\ [][NextSlot]_vars

(***************************************************************************)
(* SpecDuration: sends that take 0, 1 or 2 ticks, strings saved under the  *)
(* timestamp keys, and the assertion on the time a send took.              *)
(***************************************************************************)
NextDuration ==
  \/ ResetState(FALSE)
  \/ \E cacheKey \in {LastHTTPRequestTimestamp, LastHTTPResponseTimestamp} : ISaveAs("v", cacheKey)
  \/ \E outcome \in Outcomes, elapsed \in {0, 1, 2} :
       ISendRequestToWithBodyAndHeaders("POST", Tmpl("http://h/", NoRef),
         BodyHeaders(TRUE, NoRef, MapBody, [h \in {"A"} |-> "1"]), outcome, elapsed)
  \/ StepTimeBetweenLastHTTPRequestResponseShouldBeLessThanOrEqualTo

SpecDuration == Init /\ [][NextDuration]_vars

(***************************************************************************)
(* SpecCache: what the steps write into the cache and read back from it.   *)
(***************************************************************************)
NextCache ==
  \/ ResetState(FALSE)
  \/ \E value \in {"v", "w", ""}, cacheKey \in {"k1", "k2", LastHTTPRequestTimestamp, ""} :
       ISaveAs(value, cacheKey)
  \/ IPrepareNewRequestToAndSaveItAs("POST", Tmpl("http://h/", NoRef), "k1")
  \/ \E cacheKey \in UserKeys :
       ISetFollowingHeadersForPreparedRequest(cacheKey, HeadersDoc(TRUE, NoRef, [h \in {"A"} |-> "1"]))
  \/ \E cacheKey \in UserKeys : ISetFollowingBodyForPreparedRequest(cacheKey, Tmpl("b1", NoRef))
  \/ \E cacheKey \in UserKeys, outcome \in Outcomes : ISendRequest(cacheKey, outcome, 1)
  \/ StepTimeBetweenLastHTTPRequestResponseShouldBeLessThanOrEqualTo

SpecCache == Init /\ [][NextCache]_vars

(***************************************************************************)
(* SpecConcurrent: the parallel callers of the cache.                      *)
(***************************************************************************)
\* a caller starts its call of Save
Call(c, value) ==
  /\ callers[c] = Idle
  /\ callers' = [callers EXCEPT ![c] = Saving(value)]
  /\ UNCHANGED <<cache, reqs, debug, now, sent, served, last>>

\* Cache.Save of the concurrent cache takes effect
ConcurrentSave(c) ==
  /\ callers[c].pc = "saving"
  /\ cache' = Save(cache, CallerKey(c), StringVal(callers[c].value))
  /\ reqs' = Collect(reqs, cache')
  /\ callers' = [callers EXCEPT ![c] = Saved(callers[c].value)]
  /\ last' = Step("Save", <<CallerKey(c), callers[c].value>>, Ok, NoDispatch)
  /\ UNCHANGED <<debug, now, sent, served>>

NextConcurrent ==
  \/ \E c \in Callers, value \in {"v", "w"} : Call(c, value)
  \/ \E c \in Callers : ConcurrentSave(c)

SpecConcurrent == Init /\ [][NextConcurrent]_vars

(***************************************************************************)
(* SpecTemplates: the steps that render a template, given templates with   *)
(* and without a placeholder for k2, before and after k2 is saved.         *)
(***************************************************************************)
NextTemplates ==
  \/ ResetState(FALSE)
  \/ ISaveAs("v", "k2")
  \/ \E urlTemplate \in {Tmpl("http://h/", "k2"), Tmpl("http://h/", NoRef)} :
       IPrepareNewRequestToAndSaveItAs("POST", urlTemplate, "k1")
  \/ \E headersTemplate \in {HeadersDoc(FALSE, "k2", [h \in {"A"} |-> "$"]),
                             HeadersDoc(TRUE, "k2", [h \in {"B"} |-> "$"])} :
       ISetFollowingHeadersForPreparedRequest("k1", headersTemplate)
  \/ ISetFollowingBodyForPreparedRequest("k1", Tmpl("b2", "k2"))
  \/ \E urlTemplate \in {Tmpl("http://h/", "k2"), Tmpl("http://h/", NoRef)},
        bodyTemplate \in {BodyHeaders(TRUE, "k2", StrBody("$"), [h \in {"B"} |-> "$"]),
                          BodyHeaders(TRUE, NoRef, MapBody, [h \in {"A"} |-> "1"])},
        outcome \in Outcomes :
       ISendRequestToWithBodyAndHeaders("POST", urlTemplate, bodyTemplate, outcome, 0)

SpecTemplates == Init /\ [][NextTemplates]_vars

(***************************************************************************)
(* Properties.                                                             *)
(***************************************************************************)
HasResponse == ~Failed(GetLastResponse.err)

Resolves(expr) == HasResponse /\ ~Failed(Resolve(expr, GetLastResponseBody.body).err)

Passed(res) == res.err = "nil"

\* C1: for every type tag of nil, string, int, float, bool, map, slice and
\* every expression that resolves in the last response body, exactly one of
\* TheJSONNodeShouldBe and TheJSONNodeShouldNotBe succeeds; the step that ran
\* last returned what the other one does not.
C1_ExactlyOneOfShouldBeAndShouldNotBe ==
  /\ \A expr \in Exprs, goType \in GoTypes :
       Resolves(expr) =>
         Passed(TheJSONNodeShouldBe(expr, goType)) # Passed(TheJSONNodeShouldNotBe(expr, goType))
  /\ (last.op = "TheJSONNodeShouldBe" /\ last.args[2] \in GoTypes /\ Resolves(last.args[1])) =>
       Passed(last.res) # Passed(TheJSONNodeShouldNotBe(last.args[1], last.args[2]))
  /\ (last.op = "TheJSONNodeShouldNotBe" /\ last.args[2] \in GoTypes /\ Resolves(last.args[1])) =>
       Passed(last.res) # Passed(TheJSONNodeShouldBe(last.args[1], last.args[2]))

\* C1 witness: TheJSONNodeShouldBe(f, "float") has succeeded on the node 5.5,
\* on which TheJSONNodeShouldNotBe(f, "float") fails.
C1_Witness ==
  /\ last.op = "TheJSONNodeShouldBe"
  /\ last.args = <<"f", "float">>
  /\ Resolves("f")
  /\ Passed(last.res)
  /\ Failed(TheJSONNodeShouldNotBe("f", "float"))

ResponseAssertions ==
  {"TheResponseStatusCodeShouldBe", "TheResponseBodyShouldHaveFormat",
   "TheResponseShouldHaveHeader", "TheResponseShouldHaveHeaderOfValue",
   "TheJSONResponseShouldHaveNode", "TheJSONResponseShouldHaveNodes",
   "TheJSONNodeShouldBe", "TheJSONNodeShouldNotBe",
   "TheJSONNodeShouldBeSliceOfLength", "TheJSONNodeShouldBeOfValue"}

\* C2: every response assertion returns an error when it runs while no
\* response is stored.
C2_AssertionsFailWithoutResponse ==
  (last.op \in ResponseAssertions /\ cache[LastHTTPResponseCacheKey] = Absent) => ~Passed(last.res)

\* C3: when the expression does not resolve in the last response body,
\* TheJSONNodeShouldBe returns an error for every supported type tag, as
\* TheJSONNodeShouldNotBe does.
C3_ShouldBeFailsOnUnresolvedPath ==
  /\ (last.op = "TheJSONNodeShouldBe" /\ last.args[2] \in GoTypes
        /\ HasResponse /\ ~Resolves(last.args[1])) => ~Passed(last.res)
  /\ (last.op = "TheJSONNodeShouldNotBe" /\ last.args[2] \in GoTypes
        /\ HasResponse /\ ~Resolves(last.args[1])) => ~Passed(last.res)

SendSteps == {"ISendRequest", "ISendRequestToWithBodyAndHeaders"}

Dispatched == last.disp # NoDispatch

IsTime(v) == v.t = "time"

\* C4 as claimed: after a send attempt, successful or failed, either both
\* timestamp entries are in the cache or neither is.
C4_TimestampsAlwaysPaired ==
  last.op \in SendSteps =>
    ((cache[LastHTTPRequestTimestamp] = Absent) <=> (cache[LastHTTPResponseTimestamp] = Absent))

\* C4 as amended: a successful send leaves both timestamps in the cache, a
\* failed send that reached dispatch leaves the request timestamp in it, and
\* in every state a response timestamp comes with a request timestamp.
C4_TimestampsPairedOnSuccess ==
  /\ (last.op \in SendSteps /\ Passed(last.res)) =>
       IsTime(cache[LastHTTPRequestTimestamp]) /\ IsTime(cache[LastHTTPResponseTimestamp])
  /\ (last.op \in SendSteps /\ Dispatched) => IsTime(cache[LastHTTPRequestTimestamp])
  /\ IsTime(cache[LastHTTPResponseTimestamp]) => IsTime(cache[LastHTTPRequestTimestamp])

\* C4 witness: a first send has failed at the transport and left the request
\* timestamp alone in the cache.
C4_Witness ==
  /\ last.op \in SendSteps
  /\ Dispatched
  /\ Failed(last.res)
  /\ IsTime(cache[LastHTTPRequestTimestamp])
  /\ cache[LastHTTPResponseTimestamp] = Absent

\* C5: a send that reaches dispatch has saved the request timestamp before
\* the transport is called, whatever the transport answers; it saves the
\* response timestamp and the response when the transport succeeds; when the
\* transport fails it returns an error wrapping ErrHTTPReqRes and leaves the
\* stored response and response timestamp as they were.
C5_SendStep ==
  (last'.op \in SendSteps /\ last'.disp # NoDispatch) =>
    /\ last'.disp.ts = TimeVal(now + 1)
    /\ cache'[LastHTTPRequestTimestamp] = last'.disp.ts
    /\ Passed(last'.res) =>
         /\ IsTime(cache'[LastHTTPResponseTimestamp])
         /\ cache'[LastHTTPResponseTimestamp].at >= last'.disp.ts.at
         /\ cache'[LastHTTPResponseCacheKey] = ResponseVal(served')
    /\ Failed(last'.res) =>
         /\ last'.res.err = "ErrHTTPReqRes"
         /\ cache'[LastHTTPResponseTimestamp] = cache[LastHTTPResponseTimestamp]
         /\ cache'[LastHTTPResponseCacheKey] = cache[LastHTTPResponseCacheKey]

C5_TimestampBeforeDispatch == [][C5_SendStep]_vars

\* C5 witness: a send has failed at the transport after an earlier send had
\* stored a response; the request timestamp is the later one.
C5_Witness ==
  /\ last.op \in SendSteps
  /\ Dispatched
  /\ Failed(last.res)
  /\ cache[LastHTTPResponseCacheKey] # Absent
  /\ IsTime(cache[LastHTTPResponseTimestamp])
  /\ cache[LastHTTPRequestTimestamp].at > cache[LastHTTPResponseTimestamp].at

\* C6: after ISendRequest(k) has failed at the transport, the entry under k
\* is the request object that was handed to the client, with the method,
\* URL, headers and body it had when it was handed over.
C6_FailedSendLeavesRequestUntouched ==
  (last.op = "ISendRequest" /\ Dispatched /\ Failed(last.res)) =>
    /\ cache[last.args[1]] = RequestVal(last.disp.id)
    /\ reqs[last.disp.id] = last.disp.req

PreparedSteps ==
  {"ISendRequest", "ISetFollowingHeadersForPreparedRequest", "ISetFollowingBodyForPreparedRequest"}

\* the error of the step came before the look-up of the prepared request
FailedBeforeLookup(step) ==
  /\ step.op # "ISendRequest"
  /\ step.res.why \in {"missing key", "could not parse provided headers"}

\* C7: ISendRequest, ISetFollowingHeadersForPreparedRequest and
\* ISetFollowingBodyForPreparedRequest fail on a key that is absent from the
\* cache or holds no request: the look-up of an absent key fails with an
\* error wrapping ErrGdutils, that of another value with one wrapping
\* ErrPreservedData; nothing is dispatched, no timestamp is written and the
\* cache and the requests are unchanged.
C7_Step ==
  (last'.op \in PreparedSteps /\ cache[last'.args[1]].t # "request") =>
    /\ Failed(last'.res)
    /\ \/ FailedBeforeLookup(last')
       \/ /\ cache[last'.args[1]] = Absent
          /\ last'.res.err = "ErrGdutils"
          /\ last'.res.why = "not found"
       \/ /\ cache[last'.args[1]] # Absent
          /\ last'.res.err = "ErrPreservedData"
    /\ last'.op = "ISendRequest" => ~FailedBeforeLookup(last')
    /\ last'.disp = NoDispatch
    /\ cache' = cache
    /\ reqs' = reqs
    /\ now' = now

C7_WitnessAbsent ==
  /\ last.op = "ISetFollowingBodyForPreparedRequest"
  /\ cache[last.args[1]] = Absent
  /\ last.res.err = "ErrGdutils"
  /\ last.res.why = "not found"

\* C8: a successful set-body step leaves the request with exactly the body
\* it was given and with the headers it had; a successful set-headers step
\* leaves each header it names with the one value it gives, and every other
\* header and the body as they were.  Neither changes the method or the URL,
\* nor the object the key points to.
C8_Step ==
  LET key == last'.args[1]
      id == cache[key].id
      given == ReplaceHeaders(last'.args[2], All(cache)).out.map IN
  /\ (last'.op = "ISetFollowingBodyForPreparedRequest" /\ Passed(last'.res)) =>
       /\ cache'[key] = cache[key]
       /\ reqs'[id].Body = <<Replace(last'.args[2], All(cache)).out>>
       /\ reqs'[id].Header = reqs[id].Header
       /\ reqs'[id].Method = reqs[id].Method /\ reqs'[id].URL = reqs[id].URL
  /\ (last'.op = "ISetFollowingHeadersForPreparedRequest" /\ Passed(last'.res)) =>
       /\ cache'[key] = cache[key]
       /\ \A h \in HeaderNames :
            reqs'[id].Header[h] = IF h \in DOMAIN given THEN <<given[h]>> ELSE reqs[id].Header[h]
       /\ reqs'[id].Body = reqs[id].Body
       /\ reqs'[id].Method = reqs[id].Method /\ reqs'[id].URL = reqs[id].URL

C8_BodyReplacedHeadersMerged == [][C8_Step]_vars

\* C8 witness: after set-headers {A:1}, {A:2, B:2}, a set-body and a
\* set-headers {B: value of k2}, the request carries A of the second call,
\* B of the last one and the body of the set-body step.
C8_Witness ==
  /\ last.op = "ISetFollowingHeadersForPreparedRequest"
  /\ Passed(last.res)
  /\ last.args[2].ref = "k2"
  /\ cache[last.args[1]].t = "request"
  /\ reqs[cache[last.args[1]].id].Header["A"] = <<"2">>
  /\ reqs[cache[last.args[1]].id].Header["B"] = <<"v">>
  /\ reqs[cache[last.args[1]].id].Body = <<"b1">>

\* the object the key of the step pointed to had been sent before the step
OnSentRequest(step, c) ==
  /\ step.op \in PreparedSteps
  /\ c[step.args[1]].t = "request"
  /\ c[step.args[1]].id \in sent

\* C9 as claimed: once ISendRequest(k) has succeeded, a later send, set-headers
\* or set-body step on k neither dispatches nor changes that request object.
C9_SentStep ==
  OnSentRequest(last', cache) =>
    /\ last'.disp = NoDispatch
    /\ reqs'[cache[last'.args[1]].id] = reqs[cache[last'.args[1]].id]

C9_SentIsTerminal == [][C9_SentStep]_vars

\* C9 as amended: a request that was sent stays under its key, and the steps
\* treat it like any prepared request: ISendRequest hands that same object to
\* the client again, a set-body step gives it the new body, a set-headers
\* step the new headers.
C9_ResentStep ==
  LET key == last'.args[1]
      id == cache[key].id
      given == ReplaceHeaders(last'.args[2], All(cache)).out.map IN
  OnSentRequest(last', cache) =>
    /\ cache'[key] = RequestVal(id)
    /\ last'.op = "ISendRequest" =>
         /\ last'.disp.id = id
         /\ last'.disp.req = reqs[id]
         /\ last'.disp.again
         /\ Failed(last'.res) => last'.res.why = "transport"
    /\ (last'.op = "ISetFollowingBodyForPreparedRequest" /\ ~FailedBeforeLookup(last')) =>
         /\ Passed(last'.res)
         /\ reqs'[id].Body = <<Replace(last'.args[2], All(cache)).out>>
    /\ (last'.op = "ISetFollowingHeadersForPreparedRequest" /\ ~FailedBeforeLookup(last')) =>
         /\ Passed(last'.res)
         /\ \A h \in DOMAIN given : reqs'[id].Header[h] = <<given[h]>>

C9_SentRequestStaysUsable == [][C9_ResentStep]_vars

\* C9 witness: ISendRequest has succeeded on a request object that an earlier
\* ISendRequest had already sent with success.
C9_Witness ==
  /\ last.op = "ISendRequest"
  /\ Passed(last.res)
  /\ last.disp.again
  /\ cache[last.args[1]] = RequestVal(last.disp.id)

\* C10: TheResponseStatusCodeShouldBe(c) succeeds exactly when c is the
\* status code of the response of the latest successful send; when it is not,
\* the error wraps ErrHTTPReqRes and its text holds c and the actual code.
C10_StatusCodeOfLatestResponse ==
  last.op = "TheResponseStatusCodeShouldBe" =>
    /\ Passed(last.res) <=> (served # NoResponse /\ served.StatusCode = last.args[1])
    /\ (served # NoResponse /\ Failed(last.res)) =>
         /\ last.res.err = "ErrHTTPReqRes"
         /\ last.res.text = <<last.args[1], served.StatusCode>>

\* C10 witness: after a second send attempt, with 404 the answer to the
\* latest successful send, the assertion on 200 has failed with expected 200
\* and actual 404.
C10_Witness ==
  /\ last.op = "TheResponseStatusCodeShouldBe"
  /\ last.args = <<200>>
  /\ last.res.text = <<200, 404>>
  /\ served # NoResponse /\ served.StatusCode = 404
  /\ IsTime(cache[LastHTTPRequestTimestamp])
  /\ cache[LastHTTPRequestTimestamp].at > 1

SavingSteps == {"ISaveAs", "ISaveFromTheLastResponseJSONNodeAs", "IPrepareNewRequestToAndSaveItAs"}

\* the cache key a saving step was given
SavedKey(step) == step.args[Len(step.args)]

\* C11 as claimed: the last response is in no cache entry, and a saving step
\* leaves the response the assertions read as it was.
C11_SavingStepKeepsResponse ==
  /\ \A k \in Keys : cache'[k].t # "response"
  /\ last'.op \in SavingSteps => GetLastResponse' = GetLastResponse

C11_SlotStep ==
  /\ (last'.op \in SendSteps /\ Passed(last'.res)) =>
       /\ cache'[LastHTTPResponseCacheKey] = ResponseVal(served')
       /\ GetLastResponse' = [err |-> Ok, resp |-> served']
  /\ (last'.op \in SavingSteps /\ SavedKey(last') # LastHTTPResponseCacheKey) =>
       GetLastResponse' = GetLastResponse
  /\ (last'.op \in SavingSteps /\ SavedKey(last') = LastHTTPResponseCacheKey /\ Passed(last'.res)) =>
       /\ cache'[LastHTTPResponseCacheKey].t # "response"
       /\ Failed(GetLastResponse'.err)
       /\ Failed(TheResponseStatusCodeShouldBe(200)')

DurationStep == last.op = "TimeBetweenLastHTTPRequestResponseShouldBeLessThanOrEqualTo"

Measured == cache[LastHTTPResponseTimestamp].at - cache[LastHTTPRequestTimestamp].at

TimestampKeys == {LastHTTPRequestTimestamp, LastHTTPResponseTimestamp}

C12_DurationAtMostBound ==
  DurationStep =>
    IF \A k \in TimestampKeys : IsTime(cache[k])
      THEN /\ Passed(last.res) <=> Measured <= last.args[1]
           /\ Failed(last.res) => /\ last.res.err = "ErrHTTPReqRes"
                                  /\ last.res.text = <<last.args[1], Measured>>
      ELSE /\ Failed(last.res)
           /\ last.res.err = "ErrGdutils" =>
                /\ last.res.why = "not found"
                /\ \E k \in TimestampKeys : cache[k] = Absent /\ last.res.text = <<k>>
           /\ last.res.err # "ErrGdutils" =>
                /\ last.res.err = "ErrHTTPReqRes"
                /\ last.res.why = "should be time.Time"
                /\ \E k \in TimestampKeys : cache[k] # Absent /\ ~IsTime(cache[k])
                                            /\ last.res.text[2] = cache[k]
           /\ cache[LastHTTPRequestTimestamp] = Absent => last.res.err = "ErrGdutils"
           /\ cache[LastHTTPRequestTimestamp].t = "string" => last.res.err = "ErrHTTPReqRes"

\* a send that took exactly the bound passes
C12_Witness ==
  /\ DurationStep
  /\ \A k \in TimestampKeys : IsTime(cache[k])
  /\ Measured = 1
  /\ last.args = <<1>>
  /\ Passed(last.res)

\* a send that took longer than the bound fails with the measured time
C12_WitnessTooLong ==
  /\ DurationStep
  /\ \A k \in TimestampKeys : IsTime(cache[k])
  /\ last.res.text = <<1, 2>>

\* one timestamp is a string, the other is absent
C12_WitnessKinds ==
  /\ DurationStep
  /\ cache[LastHTTPRequestTimestamp].t = "string"
  /\ cache[LastHTTPResponseTimestamp] = Absent
  /\ last.res.err = "ErrHTTPReqRes"

(***************************************************************************)
(* C13: a number resolved from the last response body is classified by its *)
(* fractional part: with a zero fractional part (5, 5.0) it passes         *)
(* TheJSONNodeShouldBe(expr, "int") and fails TheJSONNodeShouldBe(expr,    *)
(* "float"); with a non-zero fractional part (5.5) it passes "float" and   *)
(* fails "int".                                                            *)
(***************************************************************************)
NodeAt(expr) == Resolve(expr, GetLastResponseBody.body).value

IsNumber(node) == node.k = "float64" \/ node.k \in IntKinds

\* a float64 is held in tenths; an integer has no fractional part
IsWhole(node) == node.k \in IntKinds \/ node.tenths % 10 = 0

C13_NumberClassifiedByFraction ==
  /\ \A expr \in Exprs :
       (Resolves(expr) /\ IsNumber(NodeAt(expr))) =>
         IF IsWhole(NodeAt(expr))
           THEN /\ Passed(TheJSONNodeShouldBe(expr, "int"))
                /\ Failed(TheJSONNodeShouldBe(expr, "float"))
           ELSE /\ Passed(TheJSONNodeShouldBe(expr, "float"))
                /\ Failed(TheJSONNodeShouldBe(expr, "int"))
  /\ (/\ last.op = "TheJSONNodeShouldBe"
      /\ last.args[2] \in {"int", "float"}
      /\ Resolves(last.args[1])
      /\ IsNumber(NodeAt(last.args[1]))) =>
       (Passed(last.res) <=> (last.args[2] = "int" <=> IsWhole(NodeAt(last.args[1]))))

\* TheJSONNodeShouldBe(i, "float") has failed on the node 5.0
C13_Witness ==
  /\ last.op = "TheJSONNodeShouldBe"
  /\ last.args = <<"i", "float">>
  /\ Resolves("i")
  /\ NodeAt("i") = Float64Node(50)
  /\ Failed(last.res)
  /\ Passed(TheJSONNodeShouldBe("i", "int"))

(***************************************************************************)
(* C14: every value resolved from a JSON response body is of exactly one   *)
(* type: TheJSONNodeShouldBe(expr, T) succeeds for exactly one tag T among *)
(* nil, string, int, float, bool, map, slice and fails for the other six.  *)
(***************************************************************************)
TypesOf(expr) == {goType \in GoTypes : Passed(TheJSONNodeShouldBe(expr, goType))}

C14_ExactlyOneType ==
  /\ \A expr \in Exprs : Resolves(expr) => Cardinality(TypesOf(expr)) = 1
  /\ (/\ last.op = "TheJSONNodeShouldBe"
      /\ last.args[2] \in GoTypes
      /\ Resolves(last.args[1])) =>
       (Passed(last.res) <=> TypesOf(last.args[1]) = {last.args[2]})

\* TheJSONNodeShouldBe(i, "int") has succeeded on the node 5.0, which is of
\* no other type
C14_Witness ==
  /\ last.op = "TheJSONNodeShouldBe"
  /\ last.args = <<"i", "int">>
  /\ Resolves("i")
  /\ Passed(last.res)
  /\ TypesOf("i") = {"int"}
  /\ \A expr \in {"n", "s", "f", "l"} : Resolves(expr)

(***************************************************************************)
(* C15: TheJSONNodeShouldBe and TheJSONNodeShouldNotBe given a type tag    *)
(* outside nil, string, int, float, bool, map, slice never succeed: they   *)
(* return an unsupported-type error, which differs from the error of a     *)
(* supported tag whose assertion is not met.                               *)
(***************************************************************************)
TypeSteps == {"TheJSONNodeShouldNotBe", "TheJSONNodeShouldBe"}

UnknownType(goType) == Err("ErrGdutils", "is unknown type for this step", <<goType>>)

NotMet == {"value is of the type, but expected not to be",
           "value is not of the type, but expected to be"}

\* as stated: the error of an unknown tag is always the unsupported-type error
C15_UnknownTagAlwaysUnsupported ==
  (last.op \in TypeSteps /\ last.args[2] \notin GoTypes) => last.res = UnknownType(last.args[2])

\* as the code has it: TheJSONNodeShouldNotBe looks at the tag after it has
\* read the body and resolved the node
C15_UnknownTagNeverSucceeds ==
  /\ \A expr \in Exprs, goType \in TypeTags \ GoTypes :
       /\ TheJSONNodeShouldBe(expr, goType) = UnknownType(goType)
       /\ Failed(TheJSONNodeShouldNotBe(expr, goType))
       /\ TheJSONNodeShouldNotBe(expr, goType).why \notin NotMet
       /\ Resolves(expr) => TheJSONNodeShouldNotBe(expr, goType) = UnknownType(goType)
       /\ ~HasResponse => TheJSONNodeShouldNotBe(expr, goType) = GetLastResponseBody.err
       /\ (HasResponse /\ ~Resolves(expr)) => TheJSONNodeShouldNotBe(expr, goType).err = "ErrQJSON"
  /\ (last.op \in TypeSteps /\ last.args[2] \notin GoTypes) =>
       /\ Failed(last.res)
       /\ last.res.why \notin NotMet
       /\ (last.op = "TheJSONNodeShouldBe" \/ Resolves(last.args[1])) =>
            last.res = UnknownType(last.args[2])
       /\ (last.op = "TheJSONNodeShouldNotBe" /\ ~Resolves(last.args[1])) =>
            last.res # UnknownType(last.args[2])
  /\ (last.op \in TypeSteps /\ last.args[2] \in GoTypes /\ Resolves(last.args[1]) /\ Failed(last.res)) =>
       last.res.why \in NotMet

\* TheJSONNodeShouldNotBe(s, "object") on a node that resolves
C15_Witness ==
  /\ last.op = "TheJSONNodeShouldNotBe"
  /\ last.args = <<"s", "object">>
  /\ Resolves("s")
  /\ last.res = UnknownType("object")

\* TheJSONNodeShouldNotBe(s, "object") while there is no response
C15_WitnessNoResponse ==
  /\ last.op = "TheJSONNodeShouldNotBe"
  /\ last.args = <<"s", "object">>
  /\ ~HasResponse
  /\ Failed(last.res)
  /\ last.res # UnknownType("object")

(***************************************************************************)
(* C16: TheJSONNodeShouldBeSliceOfLength(expr, n) succeeds if and only if  *)
(* expr resolves to a slice of length n; on a slice of another length it   *)
(* fails, and on a resolved value that is not a slice it fails with an     *)
(* error of another kind than that of the wrong length.                    *)
(***************************************************************************)
IsSliceOfLength(expr, length) ==
  /\ Resolves(expr)
  /\ NodeAt(expr).k = "slice"
  /\ NodeAt(expr).len = length

C16_WitnessNotSlice ==
  /\ last.op = "TheJSONNodeShouldBeSliceOfLength"
  /\ last.args[1] = "s"
  /\ Resolves("s")
  /\ last.res.why = "does not point at slice(array)"

(***************************************************************************)
(* C17: TheResponseShouldHaveHeaderOfValue(name, expected) succeeds if and *)
(* only if the value of the header in the last response is not empty and   *)
(* equals the expected value after substitution; when the actual and the   *)
(* expected value are both empty it fails with the header-not-found error, *)
(* and an empty expected value fails against a non-empty header, so a      *)
(* header that is present but empty is treated as an absent one.           *)
(* TheResponseShouldHaveHeader succeeds only for a non-empty value.        *)
(***************************************************************************)
Actual(name) == HeaderGet(GetLastResponse.resp.Header, name)

Expected(valueTemplate) == Replace(valueTemplate, All(cache))

HeaderNotFound(name) == Err("ErrHTTPReqRes", "could not find header", <<name>>)

HeaderOfValueHolds(name, valueTemplate) ==
  /\ HasResponse
  /\ ~Failed(Expected(valueTemplate).err)
  /\ Actual(name) # ""
  /\ Actual(name) = Expected(valueTemplate).out

C17_HeaderOfValue ==
  /\ \A name \in RespHeaderNames :
       /\ Passed(TheResponseShouldHaveHeader(name)) <=> (HasResponse /\ Actual(name) # "")
       /\ \A valueTemplate \in HeaderValues :
            /\ Passed(TheResponseShouldHaveHeaderOfValue(name, valueTemplate))
                 <=> HeaderOfValueHolds(name, valueTemplate)
            /\ (HasResponse /\ ~Failed(Expected(valueTemplate).err) /\ Expected(valueTemplate).out = "") =>
                 /\ Failed(TheResponseShouldHaveHeaderOfValue(name, valueTemplate))
                 /\ Actual(name) = "" =>
                      TheResponseShouldHaveHeaderOfValue(name, valueTemplate) = HeaderNotFound(name)
                 /\ Actual(name) # "" =>
                      TheResponseShouldHaveHeaderOfValue(name, valueTemplate).text = <<name, "", Actual(name)>>
  /\ last.op = "TheResponseShouldHaveHeaderOfValue" =>
       /\ Passed(last.res) <=> HeaderOfValueHolds(last.args[1], last.args[2])
       /\ (/\ HasResponse
           /\ ~Failed(Expected(last.args[2]).err)
           /\ Actual(last.args[1]) = ""
           /\ Expected(last.args[2]).out = "") => last.res = HeaderNotFound(last.args[1])
  /\ last.op = "TheResponseShouldHaveHeader" =>
       /\ Passed(last.res) <=> (HasResponse /\ Actual(last.args[1]) # "")
       /\ (HasResponse /\ Actual(last.args[1]) = "") => last.res = HeaderNotFound(last.args[1])

\* the header is present and empty, the expected value is empty: not found
C17_Witness ==
  /\ last.op = "TheResponseShouldHaveHeaderOfValue"
  /\ last.args = <<"X-Test", Tmpl("", NoRef)>>
  /\ HasResponse
  /\ GetLastResponse.resp.Header["X-Test"] = <<"">>
  /\ last.res = HeaderNotFound("X-Test")

\* the header is abc and so is the expected value, substituted from k2
C17_WitnessEqual ==
  /\ last.op = "TheResponseShouldHaveHeaderOfValue"
  /\ last.args = <<"X-Test", Tmpl("", "k2")>>
  /\ HasResponse
  /\ Actual("X-Test") = "abc"
  /\ Passed(last.res)

\* the header is abc, the expected value is empty
C17_WitnessEmptyExpected ==
  /\ last.op = "TheResponseShouldHaveHeaderOfValue"
  /\ last.args = <<"X-Test", Tmpl("", NoRef)>>
  /\ HasResponse
  /\ Actual("X-Test") = "abc"
  /\ last.res.text = <<"X-Test", "", "abc">>

(***************************************************************************)
(* C18: no step aborts on a failure that comes from its data: every step   *)
(* returns, with an error value when it fails.  TheResponseShouldHaveHeader*)
(* and TheResponseShouldHaveHeaderOfValue run without a last response      *)
(* return an error, in debug mode as out of it.                            *)
(***************************************************************************)
HeaderSteps == {"TheResponseShouldHaveHeader", "TheResponseShouldHaveHeaderOfValue"}

C18_NoStepAborts ==
  /\ last.res # Panic
  /\ (last.op \in HeaderSteps /\ ~HasResponse) => last.res.err \in {"ErrHTTPCtx", "ErrHTTPReqRes"}

\* out of debug mode the two steps do return an error without a response
C18_ErrorOutOfDebugMode ==
  (last.op \in HeaderSteps /\ ~HasResponse /\ ~debug) =>
    last.res.err \in {"ErrHTTPCtx", "ErrHTTPReqRes"}

(***************************************************************************)
(* C19: GetSaved(k) returns the value of the most recent Save(k, v) since  *)
(* the last Reset, and fails with a not-found error when there is none; a  *)
(* successful ISaveAs(value, k) is such a Save.  Stated step by step: a    *)
(* successful ISaveAs(value, k) makes GetSaved(k) return value, whatever k *)
(* held, a Reset makes GetSaved fail for every key, and a step leaves what *)
(* GetSaved returns for the keys it does not save under as it was.         *)
(***************************************************************************)
NotFound(key) == [err |-> Err("ErrCache", "not found", <<key>>), value |-> Absent]

\* the keys a step saves under
Written(step) ==
  CASE step.op = "ISaveAs" /\ Passed(step.res) -> {step.args[2]}
    [] step.op = "IPrepareNewRequestToAndSaveItAs" /\ Passed(step.res) -> {step.args[3]}
    [] step.op = "ISendRequest" /\ step.disp # NoDispatch ->
         IF Passed(step.res) THEN HttpKeys ELSE {LastHTTPRequestTimestamp}
    [] step.op = "ResetState" -> Keys
    [] OTHER -> {}

C19_CacheStep ==
  /\ (last'.op = "ISaveAs" /\ Passed(last'.res)) =>
       GetSaved(cache', last'.args[2]) = [err |-> Ok, value |-> StringVal(last'.args[1])]
  /\ (last'.op = "ISaveAs" /\ Failed(last'.res)) => (last'.args[1] = "" \/ last'.args[2] = "")
  /\ last'.op = "ResetState" => \A k \in Keys : GetSaved(cache', k) = NotFound(k)
  /\ \A k \in Keys \ Written(last') : GetSaved(cache', k) = GetSaved(cache, k)
  /\ \A k \in Keys : (GetSaved(cache', k) = NotFound(k)) <=>
       \/ last'.op = "ResetState"
       \/ GetSaved(cache, k) = NotFound(k) /\ k \notin Written(last')

C19_LastWriteWins == [][C19_CacheStep]_vars

\* ISaveAs(w, LAST_HTTP_REQUEST_TIMESTAMP) has written over what a send had
\* saved there, and k2 still holds what was saved last under it
C19_Witness ==
  /\ last.op = "ISaveAs"
  /\ last.args = <<"w", LastHTTPRequestTimestamp>>
  /\ Passed(last.res)
  /\ IsTime(cache[LastHTTPResponseTimestamp])
  /\ GetSaved(cache, LastHTTPRequestTimestamp).value = StringVal("w")
  /\ GetSaved(cache, "k2").value = StringVal("v")
  /\ GetSaved(cache, LastHTTPResponseCacheKey).value.t = "response"

(***************************************************************************)
(* C20: ResetState drops every entry of the cache.  After it GetSaved      *)
(* fails with the not-found error for every key, so ISendRequest,          *)
(* ISetFollowingHeadersForPreparedRequest and                              *)
(* ISetFollowingBodyForPreparedRequest fail for every key that held a      *)
(* prepared request and the duration assertion fails, and they go on       *)
(* failing until the entries they read are written again.                  *)
(***************************************************************************)
C20_ResetStep ==
  /\ last'.op = "ResetState" =>
       /\ \A k \in Keys : GetSaved(cache', k) = NotFound(k)
       /\ \A k \in Keys : Failed(getPreparedRequest(k)'.err)
       /\ \A timeInterval \in TimeIntervals :
            Failed(TimeBetweenLastHTTPRequestResponseShouldBeLessThanOrEqualTo(timeInterval)')
       /\ \A id \in ReqIds : reqs'[id] \in {NoReq, Garbage}
  \* until it is written again, a key that holds nothing goes on holding
  \* nothing and the steps that read it go on failing
  /\ \A k \in Keys \ Written(last') : cache[k] = Absent => cache'[k] = Absent
  /\ (last'.op \in PreparedSteps /\ cache[last'.args[1]] = Absent) =>
       /\ last'.res = Err("ErrGdutils", "not found", <<last'.args[1]>>)
       /\ last'.disp = NoDispatch
       /\ cache' = cache
  /\ (/\ last'.op = "TimeBetweenLastHTTPRequestResponseShouldBeLessThanOrEqualTo"
      /\ \E k \in TimestampKeys : cache[k] = Absent) => Failed(last'.res)

C20_ResetDropsEveryEntry == [][C20_ResetStep]_vars

\* ISendRequest(k1) fails for want of the key, and the request that k1 held
\* had been sent: a ResetState has dropped it
C20_Witness ==
  /\ last.op = "ISendRequest"
  /\ last.args = <<"k1">>
  /\ last.res = Err("ErrGdutils", "not found", <<"k1">>)
  /\ sent # {}
  /\ cache = EmptyCache

(***************************************************************************)
(* C21: under every interleaving of parallel callers that each Save under  *)
(* a key of their own in the cache NewDefaultAPIContext builds, every Save *)
(* succeeds and GetSaved then returns, for each key, the value its caller  *)
(* saved: no update is lost, and the cache holds nothing else.             *)
(***************************************************************************)
C21_NoLostUpdate ==
  /\ \A c \in Callers :
       /\ callers[c].pc = "saved" =>
            GetSaved(cache, CallerKey(c)) = [err |-> Ok, value |-> StringVal(callers[c].value)]
       /\ callers[c].pc # "saved" => GetSaved(cache, CallerKey(c)) = NotFound(CallerKey(c))
       /\ callers[c].pc = "saving" => ENABLED ConcurrentSave(c)
  /\ \A k \in Keys \ {CallerKey(c) : c \in Callers} : cache[k] = Absent
  /\ last.op = "Save" => Passed(last.res)

\* the three callers have saved, c3 first and c1 last
C21_Witness ==
  /\ \A c \in Callers : callers[c].pc = "saved"
  /\ callers["c1"].value = "v"
  /\ callers["c2"].value = "w"
  /\ last.args = <<"k1", "v">>
  /\ GetSaved(cache, "k2").value = StringVal("w")
  /\ GetSaved(cache, LastHTTPRequestTimestamp).value = StringVal(callers["c3"].value)

(***************************************************************************)
(* C22: ISendRequestToWithBodyAndHeaders works on a request of its own: it *)
(* stores the request under no cache key and changes no prepared request   *)
(* that is in the cache.  The cache entries it writes are the request      *)
(* timestamp and, when the transport succeeds, the response timestamp and  *)
(* the last response.                                                      *)
(***************************************************************************)
\* the entries of the cache that hold a request
RequestEntries(c) == {k \in Keys : c[k].t = "request"}

C22_OneShotStep ==
  last'.op = "ISendRequestToWithBodyAndHeaders" =>
    \* no entry but the three is written
    /\ \A k \in Keys \ HttpKeys : cache'[k] = cache[k]
    /\ \A k \in HttpKeys : cache'[k] # cache[k] =>
         \/ k = LastHTTPRequestTimestamp /\ cache'[k] = TimeVal(now + 1)
         \/ k = LastHTTPResponseTimestamp /\ Passed(last'.res) /\ cache'[k] = TimeVal(now')
         \/ k = LastHTTPResponseCacheKey /\ Passed(last'.res) /\ cache'[k] = ResponseVal(served')
    \* the request is stored nowhere
    /\ RequestEntries(cache') \subseteq RequestEntries(cache)
    /\ \A k \in RequestEntries(cache') : cache'[k] = cache[k]
    /\ last'.disp # NoDispatch => last'.disp.id \notin ReqIds
    \* the prepared requests the cache holds are as they were
    /\ \A k \in RequestEntries(cache') : reqs'[cache'[k].id] = reqs[cache[k].id]
    /\ sent' = sent
    /\ last'.disp = NoDispatch => cache' = cache /\ reqs' = reqs

C22_OneShotRequestIsEphemeral == [][C22_OneShotStep]_vars

\* the one-shot send has succeeded while k1 holds a prepared request that
\* was never sent: it is still in the cache, without the header of the
\* transport
C22_Witness ==
  /\ last.op = "ISendRequestToWithBodyAndHeaders"
  /\ Passed(last.res)
  /\ cache["k1"].t = "request"
  /\ reqs[cache["k1"].id].Header["User-Agent"] = <<>>
  /\ sent = {}
  /\ RequestEntries(cache) = {"k1"}
  /\ cache[LastHTTPResponseCacheKey] = ResponseVal(served)

(***************************************************************************)
(* C23: a placeholder that does not resolve fails the step, it is not      *)
(* passed through as it is written, and the failure changes nothing:       *)
(* IPrepareNewRequestToAndSaveItAs stores nothing under cacheKey, the      *)
(* set-headers and set-body steps leave the prepared request as it was,    *)
(* and ISendRequestToWithBodyAndHeaders, with the placeholder in the URL   *)
(* or in the body/headers document, dispatches nothing and writes no       *)
(* timestamp.                                                              *)
(***************************************************************************)
TemplateSteps ==
  {"IPrepareNewRequestToAndSaveItAs", "ISetFollowingHeadersForPreparedRequest",
   "ISetFollowingBodyForPreparedRequest", "ISendRequestToWithBodyAndHeaders"}

\* the cache keys the templates of a step name
Refs(step) ==
  {step.args[i].ref : i \in IF step.op = "ISendRequestToWithBodyAndHeaders" THEN {2, 3} ELSE {2}}
    \ {NoRef}

Unresolvable(step, c) == {ref \in Refs(step) : c[ref] = Absent}

C23_TemplateStep ==
  (last'.op \in TemplateSteps /\ Unresolvable(last', cache) # {}) =>
    /\ \E ref \in Unresolvable(last', cache) :
         last'.res = Err("ErrTemplate", "missing key", <<ref>>)
    /\ last'.disp = NoDispatch
    /\ cache' = cache
    /\ reqs' = reqs
    /\ now' = now
    /\ served' = served
    /\ sent' = sent

C23_UnresolvedPlaceholderFails == [][C23_TemplateStep]_vars

\* the one-shot send has failed on the placeholder of its URL while k1 holds
\* a prepared request and no send was made
C23_Witness ==
  /\ last.op = "ISendRequestToWithBodyAndHeaders"
  /\ last.args[2] = Tmpl("http://h/", "k2")
  /\ last.args[3].ref = NoRef
  /\ last.res = Err("ErrTemplate", "missing key", <<"k2">>)
  /\ cache["k2"] = Absent
  /\ cache["k1"].t = "request"
  /\ cache[LastHTTPRequestTimestamp] = Absent

\* IPrepareNewRequestToAndSaveItAs has failed on the placeholder: k1 holds
\* nothing
C23_WitnessPrepare ==
  /\ last.op = "IPrepareNewRequestToAndSaveItAs"
  /\ last.res = Err("ErrTemplate", "missing key", <<"k2">>)
  /\ cache["k1"] = Absent

\* the set-body step has failed on the placeholder: the request has no body
C23_WitnessBody ==
  /\ last.op = "ISetFollowingBodyForPreparedRequest"
  /\ last.res = Err("ErrTemplate", "missing key", <<"k2">>)
  /\ cache["k1"].t = "request"
  /\ reqs[cache["k1"].id].Body = <<>>

(***************************************************************************)
(* C24: for every body of the last response exactly one of                 *)
(* TheResponseBodyShouldHaveFormat(JSON) and                               *)
(* TheResponseBodyShouldHaveFormat(plain text) succeeds: the plain text    *)
(* check succeeds precisely when the body is not JSON.  Any other format   *)
(* name fails with the unknown-format error.                               *)
(***************************************************************************)
UnknownFormat == Err("ErrHTTPReqRes", "unknown last response body data type", <<>>)

C24_JSONOrPlainText ==
  /\ HasResponse =>
       /\ Passed(TheResponseBodyShouldHaveFormat(FormatJSON))
            # Passed(TheResponseBodyShouldHaveFormat(FormatPlainText))
       /\ Passed(TheResponseBodyShouldHaveFormat(FormatPlainText))
            <=> ~IsJSON(GetLastResponseBody.body)
  /\ \A dataFormat \in DataFormats \ {FormatJSON, FormatPlainText} :
       TheResponseBodyShouldHaveFormat(dataFormat) = UnknownFormat
  /\ last.op = "TheResponseBodyShouldHaveFormat" =>
       /\ last.args[1] \notin {FormatJSON, FormatPlainText} => last.res = UnknownFormat
       /\ (HasResponse /\ last.args[1] = FormatPlainText) =>
            /\ Passed(last.res) <=> ~IsJSON(GetLastResponseBody.body)
            /\ Passed(last.res) # Passed(TheResponseBodyShouldHaveFormat(FormatJSON))
       /\ (HasResponse /\ last.args[1] = FormatJSON) =>
            /\ Passed(last.res) <=> IsJSON(GetLastResponseBody.body)
            /\ Passed(last.res) # Passed(TheResponseBodyShouldHaveFormat(FormatPlainText))

\* the plain text check has succeeded on a body that is not JSON
C24_Witness ==
  /\ last.op = "TheResponseBodyShouldHaveFormat"
  /\ last.args = <<FormatPlainText>>
  /\ HasResponse
  /\ GetLastResponseBody.body = "plain"
  /\ Passed(last.res)
  /\ Failed(TheResponseBodyShouldHaveFormat(FormatJSON))

\* the plain text check has failed on a JSON body
C24_WitnessJSON ==
  /\ last.op = "TheResponseBodyShouldHaveFormat"
  /\ last.args = <<FormatPlainText>>
  /\ HasResponse
  /\ IsJSON(GetLastResponseBody.body)
  /\ last.res.why = "last response body has type JSON"

(***************************************************************************)
(* C25: the debugger never influences a result: a step run with debug mode *)
(* on and the same step run with debug mode off, from the same cache and   *)
(* last response, return the same success or error.  Stated on the steps   *)
(* that change the debug mode and nothing else: every assertion returns    *)
(* after such a step what it returned before it.                           *)
(***************************************************************************)
C25_DebugStep ==
  (debug' # debug /\ cache' = cache) =>
    /\ \A code \in StatusCodes :
         TheResponseStatusCodeShouldBe(code)' = TheResponseStatusCodeShouldBe(code)
    /\ \A dataFormat \in DataFormats :
         TheResponseBodyShouldHaveFormat(dataFormat)' = TheResponseBodyShouldHaveFormat(dataFormat)
    /\ \A expr \in Exprs : TheJSONResponseShouldHaveNode(expr)' = TheJSONResponseShouldHaveNode(expr)
    /\ \A expr \in Exprs, goType \in TypeTags :
         /\ TheJSONNodeShouldBe(expr, goType)' = TheJSONNodeShouldBe(expr, goType)
         /\ TheJSONNodeShouldNotBe(expr, goType)' = TheJSONNodeShouldNotBe(expr, goType)
    /\ \A name \in RespHeaderNames :
         /\ TheResponseShouldHaveHeader(name)' = TheResponseShouldHaveHeader(name)
         /\ \A valueTemplate \in HeaderValues :
              TheResponseShouldHaveHeaderOfValue(name, valueTemplate)'
                = TheResponseShouldHaveHeaderOfValue(name, valueTemplate)

C25_DebuggerNeverInfluences == [][C25_DebugStep]_vars

\* the same, for all the assertions but the two on the headers
C25_DebugStepButHeaders ==
  (debug' # debug /\ cache' = cache) =>
    /\ \A code \in StatusCodes :
         TheResponseStatusCodeShouldBe(code)' = TheResponseStatusCodeShouldBe(code)
    /\ \A dataFormat \in DataFormats :
         TheResponseBodyShouldHaveFormat(dataFormat)' = TheResponseBodyShouldHaveFormat(dataFormat)
    /\ \A expr \in Exprs : TheJSONResponseShouldHaveNode(expr)' = TheJSONResponseShouldHaveNode(expr)
    /\ \A expr \in Exprs, goType \in TypeTags :
         /\ TheJSONNodeShouldBe(expr, goType)' = TheJSONNodeShouldBe(expr, goType)
         /\ TheJSONNodeShouldNotBe(expr, goType)' = TheJSONNodeShouldNotBe(expr, goType)
    /\ \A name \in RespHeaderNames :
         HasResponse => /\ TheResponseShouldHaveHeader(name)' = TheResponseShouldHaveHeader(name)
                        /\ \A valueTemplate \in HeaderValues :
                             TheResponseShouldHaveHeaderOfValue(name, valueTemplate)'
                               = TheResponseShouldHaveHeaderOfValue(name, valueTemplate)

C25_DebuggerInfluencesHeadersOnly == [][C25_DebugStepButHeaders]_vars

(***************************************************************************)
(* C26: TheJSONResponseShouldHaveNodes succeeds if and only if there is a  *)
(* last response and every expression between the commas, trimmed of the   *)
(* blanks around it, resolves in its body.  When some do not, every        *)
(* expression has been evaluated: the error lists the expressions that do  *)
(* not resolve, in their order, one entry for each occurrence, and no      *)
(* other.                                                                  *)
(***************************************************************************)
\* the trimmed expressions of the step
Trimmed(expressions) == [i \in 1..Len(expressions) |-> expressions[i][2]]

NotResolving(expr) == ~Resolves(expr)

C26_HaveNodes ==
  last.op = "TheJSONResponseShouldHaveNodes" =>
    LET trimmed == Trimmed(last.args[1]) IN
    /\ Passed(last.res) <=> (HasResponse /\ \A i \in 1..Len(trimmed) : Resolves(trimmed[i]))
    /\ (HasResponse /\ Failed(last.res)) =>
         /\ last.res.text = SelectSeq(trimmed, NotResolving)
         /\ Len(last.res.text) = Cardinality({i \in 1..Len(trimmed) : ~Resolves(trimmed[i])})
    /\ ~HasResponse => last.res = GetLastResponseBody.err

\* of three expressions with blanks around them the first and the last do
\* not resolve, and the error lists the two
C26_Witness ==
  /\ last.op = "TheJSONResponseShouldHaveNodes"
  /\ HasResponse
  /\ Len(last.args[1]) = 3
  /\ last.args[1][2][1] = " "
  /\ Resolves("f")
  /\ last.res.text = <<"zz", "b">>

\* every expression resolves and the step succeeds
C26_WitnessAll ==
  /\ last.op = "TheJSONResponseShouldHaveNodes"
  /\ Len(last.args[1]) = 2
  /\ last.args[1][2] = <<" ", "i", "">>
  /\ Passed(last.res)

\* the same expression twice: two entries
C26_WitnessTwice ==
  /\ last.op = "TheJSONResponseShouldHaveNodes"
  /\ HasResponse
  /\ last.res.text = <<"zz", "zz">>

(***************************************************************************)
(* C27: ISaveFromTheLastResponseJSONNodeAs(expr, key) saves under key the  *)
(* value expr resolves to in the body of the last response, and changes no *)
(* other entry.  With no last response, or when expr does not resolve, it  *)
(* returns an error and the cache is as it was, the value under key        *)
(* included.                                                               *)
(***************************************************************************)
C27_SaveNodeStep ==
  last'.op = "ISaveFromTheLastResponseJSONNodeAs" =>
    LET expr == last'.args[1]
        key == last'.args[2] IN
    IF Resolves(expr)
      THEN /\ Passed(last'.res)
           /\ GetSaved(cache', key) =
                [err |-> Ok, value |-> NodeVal(Document(GetLastResponse.resp.Body)[expr])]
           /\ \A k \in Keys \ {key} : cache'[k] = cache[k]
      ELSE /\ Failed(last'.res)
           /\ cache' = cache
           /\ reqs' = reqs

C27_NodeSavedOrCacheUnchanged == [][C27_SaveNodeStep]_vars

\* the node "abc" has replaced the value the key k2 held
C27_Witness ==
  /\ last.op = "ISaveFromTheLastResponseJSONNodeAs"
  /\ last.args = <<"s", "k2">>
  /\ Passed(last.res)
  /\ cache["k2"] = NodeVal(StringNode("abc"))
  /\ HasResponse

\* the expression does not resolve in the last response: the value under k2
\* is the one ISaveAs stored
C27_WitnessUnresolved ==
  /\ last.op = "ISaveFromTheLastResponseJSONNodeAs"
  /\ last.args = <<"zz", "k2">>
  /\ HasResponse
  /\ Failed(last.res)
  /\ cache["k2"] = StringVal("v")

\* there is no last response
C27_WitnessNoResponse ==
  /\ last.op = "ISaveFromTheLastResponseJSONNodeAs"
  /\ ~HasResponse
  /\ Failed(last.res)
  /\ cache["k2"] = StringVal("v")

(***************************************************************************)
(* C28: after any sequence of send attempts, through ISendRequest or       *)
(* ISendRequestToWithBodyAndHeaders, the two timestamps the duration       *)
(* assertion subtracts were written by the same attempt: when the cache    *)
(* holds both, the response timestamp is not earlier than the request      *)
(* timestamp.                                                              *)
(***************************************************************************)
C28_TimestampsFromSameSend ==
  (\A k \in TimestampKeys : cache[k] # Absent /\ IsTime(cache[k])) =>
    cache[LastHTTPResponseTimestamp].at >= cache[LastHTTPRequestTimestamp].at

\* a send attempt that reaches the transport writes the request timestamp;
\* when the transport succeeds it writes the response timestamp too, not
\* earlier; when the transport fails it leaves the response timestamp of the
\* earlier attempt, which is earlier than the request timestamp it wrote
C28_SendStep ==
  (last'.op \in SendSteps /\ last'.disp # NoDispatch) =>
    /\ cache'[LastHTTPRequestTimestamp] = TimeVal(now + 1)
    /\ IF Passed(last'.res)
         THEN /\ cache'[LastHTTPResponseTimestamp] = TimeVal(now')
              /\ now' >= now + 1
              /\ Measured' >= 0
         ELSE /\ cache'[LastHTTPResponseTimestamp] = cache[LastHTTPResponseTimestamp]
              /\ IsTime(cache[LastHTTPResponseTimestamp]) => Measured' < 0

C28_TimestampsOfLastAttempt == [][C28_SendStep]_vars

\* a send has failed at the transport after one that succeeded: the request
\* timestamp is the one of the failed attempt, the response timestamp the
\* one of the attempt before it
C28_Witness ==
  /\ last.op \in SendSteps
  /\ Dispatched
  /\ Failed(last.res)
  /\ \A k \in TimestampKeys : IsTime(cache[k])
  /\ cache[LastHTTPRequestTimestamp] = last.disp.ts
  /\ Measured < 0

\* the send has succeeded after one that failed
C28_WitnessSuccess ==
  /\ last.op = "ISendRequest"
  /\ Passed(last.res)
  /\ last.disp.again = FALSE
  /\ now > 1
  /\ Measured >= 0

(***************************************************************************)
(* C29: setting the headers and setting the body of a prepared request     *)
(* commute.  A set-headers step on a key leaves every body template        *)
(* resolving as before and the key holding the same prepared request, and  *)
(* the request a set-body step would then leave is the one the two steps   *)
(* leave in the opposite order: same method, URL, headers and body.  The   *)
(* same holds for a set-body step followed by a set-headers step.  A step  *)
(* of the two that fails changes nothing, and after either step the key    *)
(* still holds a prepared request, so either can be applied again.         *)
(***************************************************************************)
C29_StepOn(key) ==
  LET id == cache[key].id IN
  /\ Failed(last'.res) => cache' = cache /\ reqs' = reqs
  /\ (last'.op = "ISetFollowingHeadersForPreparedRequest" /\ Passed(last'.res)) =>
       LET h == ReplaceHeaders(last'.args[2], All(cache)).out.map IN
       /\ getPreparedRequest(key)' = getPreparedRequest(key)
       /\ Passed(getPreparedRequest(key).err)
       /\ \A bodyTemplate \in BodyTemplates :
            LET b == Replace(bodyTemplate, All(cache)) IN
            /\ Replace(bodyTemplate, All(cache')) = b
            /\ Passed(b.err) =>
                 WithBody(reqs'[id], b.out) = WithHeaders(WithBody(reqs[id], b.out), h)
  /\ (last'.op = "ISetFollowingBodyForPreparedRequest" /\ Passed(last'.res)) =>
       LET b == Replace(last'.args[2], All(cache)).out IN
       /\ getPreparedRequest(key)' = getPreparedRequest(key)
       /\ Passed(getPreparedRequest(key).err)
       /\ \A headersTemplate \in HeadersTemplates :
            LET h == ReplaceHeaders(headersTemplate, All(cache)) IN
            /\ ReplaceHeaders(headersTemplate, All(cache')) = h
            /\ (Passed(h.err) /\ h.out.valid) =>
                 WithHeaders(reqs'[id], h.out.map) = WithBody(WithHeaders(reqs[id], h.out.map), b)

C29_Step ==
  \A key \in Keys :
    (last'.op \in PreparedSteps \ {"ISendRequest"} /\ last'.args[1] = key) => C29_StepOn(key)

C29_HeadersAndBodyCommute == [][C29_Step]_vars

\* the body was set after the headers A and B, which the request still
\* carries
C29_Witness ==
  /\ last.op = "ISetFollowingBodyForPreparedRequest"
  /\ Passed(last.res)
  /\ reqs[cache[last.args[1]].id].Header["A"] = <<"2">>
  /\ reqs[cache[last.args[1]].id].Header["B"] = <<"v">>
  /\ reqs[cache[last.args[1]].id].Body = <<"b2v">>

\* the headers were set after the body, which the request still carries
C29_WitnessHeadersLast ==
  /\ last.op = "ISetFollowingHeadersForPreparedRequest"
  /\ Passed(last.res)
  /\ reqs[cache[last.args[1]].id].Header["B"] = <<"v">>
  /\ reqs[cache[last.args[1]].id].Body = <<"b2v">>

(***************************************************************************)
(* C30: with a data type that is none of string, int, float and bool,      *)
(* TheJSONNodeShouldBeOfValue compares nothing: it succeeds exactly when   *)
(* the template of the expected value resolves, there is a last response   *)
(* and the expression resolves in its body, whatever the value of the node *)
(* and the expected value.                                                 *)
(***************************************************************************)
ComparedTypes == {"string", "bool", "int", "float"}

C30_UncomparedType ==
  (last.op = "TheJSONNodeShouldBeOfValue" /\ last.args[2] \notin ComparedTypes) =>
    /\ Passed(last.res) <=>
         /\ Passed(Replace(last.args[3], All(cache)).err)
         /\ Resolves(last.args[1])
    /\ Failed(last.res) =>
         \/ last.res = Replace(last.args[3], All(cache)).err
         \/ last.res = GetLastResponseBody.err
         \/ last.res = Err("ErrQJSON", "node", <<last.args[1]>>)

\* the node is the string "abc", the expected value is 5 and the step
\* succeeds
C30_Witness ==
  /\ last.op = "TheJSONNodeShouldBeOfValue"
  /\ last.args[2] = "slice"
  /\ Passed(last.res)
  /\ NodeAt(last.args[1]) = StringNode("abc")
  /\ Replace(last.args[3], All(cache)).out = "5"

\* with the data type string the same node and expected value fail
C30_WitnessCompared ==
  /\ last.op = "TheJSONNodeShouldBeOfValue"
  /\ last.args[2] = "string"
  /\ Failed(last.res)
  /\ NodeAt(last.args[1]) = StringNode("abc")
  /\ Replace(last.args[3], All(cache)).out = "5"

\* the expected value does not resolve: the step fails though the data type
\* is not compared
C30_WitnessUnresolved ==
  /\ last.op = "TheJSONNodeShouldBeOfValue"
  /\ last.args[2] = "slice"
  /\ Failed(Replace(last.args[3], All(cache)).err)
  /\ Resolves(last.args[1])
  /\ Failed(last.res)

(***************************************************************************)
(* C31: TheJSONNodeShouldBeOfValue(expr, "int", v) succeeds exactly when   *)
(* the node is a JSON number whose truncation toward zero is the integer   *)
(* the text of the expected value, once its template is replaced, denotes: *)
(* the node 5.5 matches the expected value 5.  A node that is not a number *)
(* fails, and so does an expected text that is not an integer.             *)
(***************************************************************************)
IntSteps == last.op = "TheJSONNodeShouldBeOfValue" /\ last.args[2] = "int"

\* the node and the expected value of the step meet the claim's condition
TruncationEquals ==
  LET expected == Replace(last.args[3], All(cache)) IN
  /\ Passed(expected.err)
  /\ Resolves(last.args[1])
  /\ NodeAt(last.args[1]).k = "float64"
  /\ Atoi(expected.out).ok
  /\ Trunc(NodeAt(last.args[1]).tenths) = Atoi(expected.out).i

C31_IntByTruncation == IntSteps => (Passed(last.res) <=> TruncationEquals)

\* the same for the nodes whose truncation is a value of the type int
InIntRange(node) == node.k = "float64" => Trunc(node.tenths) \in MinInt..MaxInt

C31_IntByTruncationInRange ==
  (IntSteps /\ InIntRange(NodeAt(last.args[1]))) => (Passed(last.res) <=> TruncationEquals)

\* the node 5.5 has matched the expected value 5
C31_WitnessFraction ==
  /\ IntSteps
  /\ Passed(last.res)
  /\ NodeAt(last.args[1]) = Float64Node(55)
  /\ last.args[3] = Tmpl("5", NoRef)

\* the node is too large for an int and has matched the smallest int
C31_WitnessOutOfRange ==
  /\ IntSteps
  /\ Passed(last.res)
  /\ ~InIntRange(NodeAt(last.args[1]))
  /\ Atoi(Replace(last.args[3], All(cache)).out).i = MinInt

====
